---- MODULE Spec2Model ----
(***************************************************************************)
(* State-machine model of the task manager's REST handlers                 *)
(* (app/api/tasks.py, app/api/tags.py, app/api/projects.py), their         *)
(* decorators (app/utils/decorators.py, app/utils/helpers.py) and the      *)
(* tables they write (app/models/*.py).                                    *)
(*                                                                         *)
(* One action is one HTTP request handled from the first decorator to the  *)
(* response.  A handler that raises is modelled with the response the      *)
(* surrounding wrappers turn the exception into, and with the session      *)
(* rolled back (no row of the request persists).                           *)
(***************************************************************************)
EXTENDS Integers, Sequences, FiniteSets, TLC

\* ------------------------------------------------------------------ bounds
MaxProjects == 2
MaxTasks == 2
MaxTags == 2
MaxComments == 2
MaxLog == 3
MaxClock == 2
MaxBatch == 2
MaxInflight == 2

\* --------------------------------------------------------------- universes
Users == {"u1", "u2", "u3"}
ProjectIdSeq == <<"p1", "p2", "p3", "p4">>
TaskIdSeq == <<"t1", "t2", "t3", "t4">>
TagIdSeq == <<"g1", "g2", "g3", "g4">>
ProjectIds == {ProjectIdSeq[i] : i \in 1..MaxProjects}
TaskIds == {TaskIdSeq[i] : i \in 1..MaxTasks}
TagIds == {TagIdSeq[i] : i \in 1..MaxTags}
CommentIdSeq == <<"c1", "c2", "c3", "c4">>
CommentIds == {CommentIdSeq[i] : i \in 1..MaxComments}
Contents == {"x", "y"}
TagNames == {"Bug", "Ui"}
Titles == {"A"}

\* Python None, for nullable columns and absent request keys.
None == "None"
\* A null completed_at (Column(DateTime), nullable); timestamps are 1, 2, ...
NULL_TIME == 0

\* TaskStatus, MemberRole, ActivityAction enum values.
TaskStatus == {"todo", "in_progress", "review", "done"}
MemberRole == {"viewer", "member", "admin"}

\* Socket.IO session ids of the connections.
Sids == {"s1", "s2"}

VARIABLES
    projects,   \* projects table: id -> [owner_id, is_archived]
    members,    \* project_members table: set of rows [project_id, user_id, role]
    tasks,      \* tasks table: id -> row
    tags,       \* tags table: id -> [name, project_id]
    task_tags,  \* task_tags table: set of rows [task_id, tag_id]
    comments,   \* comments table: id -> [task_id, user_id, content, is_edited]
    activity,   \* activity_logs table, in insertion order
    emitted,    \* events handed to socketio.emit, in order
    connected_users, \* websocket_events.connected_users: sid -> user id
    rooms,      \* Socket.IO room membership: set of [sid, room]
    delivered,  \* per connection, the emits it received: indices of emitted, in order
    ids,        \* how many ids of each table have been issued (uuid4 never repeats)
    now,        \* datetime.utcnow(), advanced by every stamp
    inflight,   \* requests that have read and not yet committed
    resp        \* the last request and its HTTP response

vars == <<projects, members, tasks, tags, task_tags, comments, activity, emitted,
          connected_users, rooms, delivered, ids, now, inflight, resp>>

\* ---------------------------------------------------------------- helpers
Range(s) == {s[i] : i \in DOMAIN s}

\* Sequences over S of length at most n.
SeqsUpTo(S, n) == UNION {[1..k -> S] : k \in 0..n}

\* f with key k bound to v (k may be new).
Put(f, k, v) == [x \in (DOMAIN f) \cup {k} |-> IF x = k THEN v ELSE f[x]]

\* f without key k.
Drop(f, k) == [x \in (DOMAIN f) \ {k} |-> f[x]]

\* The last request and its answer: the handler (op), current_user (actor), the id
\* in the URL (target; the project for create_task), the request's one scalar
\* argument where it has one (arg, else None), the status code, and the exception
\* that ended the handler (None when it returned normally).
Reply(op, actor, target, arg, code, exc) ==
    [op |-> op, actor |-> actor, target |-> target, arg |-> arg, code |-> code, exc |-> exc]

\* str() of a TaskStatus member: plain enum.Enum prints as ClassName.MEMBER.
StrStatus(s) ==
    CASE s = "todo" -> "TaskStatus.TODO"
      [] s = "in_progress" -> "TaskStatus.IN_PROGRESS"
      [] s = "review" -> "TaskStatus.REVIEW"
      [] s = "done" -> "TaskStatus.DONE"

\* str() of a uuid or of None.
StrId(v) == v

\* validate_json: an exception escaping the wrapped handler is answered 422 when it
\* carries .messages (marshmallow ValidationError) and 400 "Invalid JSON data" otherwise.
validate_json(exc) == IF exc = "ValidationError" THEN 422 ELSE 400

\* An exception no wrapper catches: Flask answers 500.
flask_unhandled(exc) == 500

\* The names bound in app/api/tasks.py: its imports, tasks_bp and its view functions.
\* Line 9 imports TaskStatusUpdateSchema and TaskAssignSchema from app.schemas, whose
\* __init__ exports neither (they are defined in app/schemas/task_schema.py): as the
\* source stands the import of the module raises ImportError, and the same holds for
\* tags.py, comments.py and projects.py.  The handlers are modelled as their function
\* bodies run once those imports resolve.
TasksGlobals ==
    {"Blueprint", "request", "datetime", "db",
     "Task", "Project", "User", "Tag", "TaskTag", "TaskStatus", "TaskPriority",
     "ActivityLog", "ActivityAction",
     "TaskSchema", "TaskCreateSchema", "TaskUpdateSchema", "TaskStatusUpdateSchema",
     "TaskAssignSchema", "success_response", "error_response",
     "jwt_required_with_user", "permission_required",
     "validate_json", "get_or_404", "paginate_query", "get_request_filters",
     "apply_task_filters", "tasks_bp",
     "list_tasks", "create_task", "get_task", "update_task", "delete_task",
     "update_task_status", "assign_task", "complete_task", "get_task_history"}

\* ProjectMember.query.filter_by(project_id=p, user_id=u).first()
MemberRow(p, u) ==
    LET rows == {m \in members : m.project_id = p /\ m.user_id = u}
    IN  IF rows = {} THEN None ELSE (CHOOSE m \in rows : TRUE).role

\* The access check every handler of tasks.py repeats:
\*   if project.owner_id != current_user.id:
\*       member = ProjectMember.query...first()
\*       if not member [or member.role == MemberRole.VIEWER]: return 403
\* viewer_ok is TRUE for the handlers whose test is "if not member" alone.
\* Result: "ok", "denied", or "NameError" when a name the check reads is unbound.
TaskAccess(actor, p, viewer_ok) ==
    IF projects[p].owner_id = actor THEN "ok"
    ELSE IF "ProjectMember" \notin TasksGlobals THEN "NameError"
    ELSE IF MemberRow(p, actor) = None THEN "denied"
    ELSE IF viewer_ok THEN "ok"
    ELSE IF "MemberRole" \notin TasksGlobals THEN "NameError"
    ELSE IF MemberRow(p, actor) = "viewer" THEN "denied"
    ELSE "ok"

\* ActivityLog.log_activity: one more row, added to the session.
log_activity(log, user, project, action, task, details) ==
    Append(log, [user_id |-> user, project_id |-> project, task_id |-> task,
                 action |-> action, details |-> details])

\* A request answered without any write: only the response changes.
Refuse(r) ==
    /\ resp' = r
    /\ UNCHANGED <<projects, members, tasks, tags, task_tags, activity, emitted, connected_users, rooms, delivered, comments, ids, now, inflight>>

\* Two TaskTag objects with one primary key in one session: the flush raises.
HasDuplicate(seq) == \E i, j \in DOMAIN seq : i < j /\ seq[i] = seq[j]

\* The rows a batch of tag ids adds for task t.
Links(t, seq) == {[task_id |-> t, tag_id |-> seq[i]] : i \in DOMAIN seq}

\* ------------------------------------------------------- app/api/tasks.py
\* POST /api/tasks.  data: project_id, assignee_id (None when absent),
\* status (None when absent), tag_ids (<<>> when absent).
create_task(actor, data) ==
    LET p == data.project_id
        R(code, exc) == Reply("create_task", actor, p, None, code, exc)
        access == TaskAccess(actor, p, FALSE)
        t == TaskIdSeq[ids.task + 1]
        row == [title |-> data.title,
                project_id |-> p,
                creator_id |-> actor,
                assignee_id |-> data.assignee_id,
                status |-> IF data.status = None THEN "todo" ELSE data.status,
                completed_at |-> NULL_TIME]
    IN  /\ ids.task < MaxTasks
        /\ Len(activity) < MaxLog
        /\ IF p \notin DOMAIN projects
             THEN Refuse(R(validate_json("NotFound"), "NotFound"))
           ELSE IF access = "NameError"
             THEN Refuse(R(validate_json("NameError"), "NameError"))
           ELSE IF access = "denied"
             THEN Refuse(R(403, None))
           ELSE IF \E i \in DOMAIN data.tag_ids : data.tag_ids[i] \notin DOMAIN tags
             THEN Refuse(R(500, "NotFound"))
           ELSE IF HasDuplicate(data.tag_ids)
             THEN Refuse(R(500, "IntegrityError"))
           ELSE /\ tasks' = Put(tasks, t, row)
                /\ task_tags' = task_tags \cup Links(t, data.tag_ids)
                /\ activity' = log_activity(activity, actor, p, "created", t,
                                            [task_title |-> row.title])
                /\ ids' = [ids EXCEPT !.task = @ + 1]
                /\ resp' = R(201, None)
                /\ UNCHANGED <<projects, members, tags, emitted, connected_users, rooms, delivered, comments, now, inflight>>

\* A key the request body does not hold.
Absent == "absent"

\* The per-field diff of update_task: the fields present in data (tag_ids apart)
\* whose value differs from the task's, each with str(old) and str(new).
Changes(row, data) ==
    LET fields == {f \in {"status", "assignee_id"} : data[f] # Absent /\ row[f] # data[f]}
        Str(f, v) == IF f = "status" THEN StrStatus(v) ELSE StrId(v)
    IN  [f \in fields |-> [old |-> Str(f, row[f]), new |-> Str(f, data[f])]]

\* PUT /api/tasks/<task_id>.  data: status and assignee_id (Absent when the key
\* is not sent), has_tag_ids and tag_ids.
update_task(actor, t, data) ==
    LET R(code, exc) == Reply("update_task", actor, t, None, code, exc)
    IN  /\ Len(activity) < MaxLog
        /\ now <= MaxClock
        /\ IF t \notin DOMAIN tasks
             THEN Refuse(R(validate_json("NotFound"), "NotFound"))
           ELSE
           LET row == tasks[t]
               p == row.project_id
               access == TaskAccess(actor, p, FALSE)
               changes == Changes(row, data)
               set == [f \in DOMAIN row |->
                          IF f \in DOMAIN changes THEN data[f] ELSE row[f]]
               stamp == "status" \in DOMAIN changes
                        /\ changes["status"].new = "TaskStatus.DONE"
               new == IF stamp THEN [set EXCEPT !.completed_at = now] ELSE set
           IN  IF access = "NameError"
                 THEN Refuse(R(validate_json("NameError"), "NameError"))
               ELSE IF access = "denied"
                 THEN Refuse(R(403, None))
               ELSE IF data.has_tag_ids
                       /\ \E i \in DOMAIN data.tag_ids : data.tag_ids[i] \notin DOMAIN tags
                 THEN Refuse(R(500, "NotFound"))
               ELSE IF data.has_tag_ids /\ HasDuplicate(data.tag_ids)
                 THEN Refuse(R(500, "IntegrityError"))
               ELSE /\ tasks' = [tasks EXCEPT ![t] = new]
                    /\ task_tags' =
                          IF data.has_tag_ids
                          THEN {l \in task_tags : l.task_id # t} \cup Links(t, data.tag_ids)
                          ELSE task_tags
                    /\ now' = IF stamp THEN now + 1 ELSE now
                    /\ activity' =
                          IF DOMAIN changes # {}
                          THEN log_activity(activity, actor, p, "updated", t,
                                            [changes |-> changes])
                          ELSE activity
                    /\ resp' = R(200, None)
                    /\ UNCHANGED <<projects, members, tags, emitted, connected_users, rooms, delivered, comments, ids, inflight>>

\* DELETE /api/tasks/<task_id>.  No validate_json around it.  Deleting the Task
\* cascades to its task_tags; its activity rows (relationship without delete
\* cascade) are kept with task_id set to NULL; the "deleted" entry has no task.
delete_task(actor, t) ==
    LET R(code, exc) == Reply("delete_task", actor, t, None, code, exc)
    IN  /\ Len(activity) < MaxLog
        /\ IF t \notin DOMAIN tasks
             THEN Refuse(R(404, "NotFound"))
           ELSE
           LET row == tasks[t]
               p == row.project_id
               access == TaskAccess(actor, p, FALSE)
               logged == log_activity(activity, actor, p, "deleted", None,
                                      [task_title |-> row.title, task_id |-> StrId(t)])
           IN  IF access = "NameError"
                 THEN Refuse(R(flask_unhandled("NameError"), "NameError"))
               ELSE IF access = "denied"
                 THEN Refuse(R(403, None))
               ELSE /\ tasks' = Drop(tasks, t)
                    /\ task_tags' = {l \in task_tags : l.task_id # t}
                    /\ activity' = [i \in DOMAIN logged |->
                                       IF logged[i].task_id = t
                                       THEN [logged[i] EXCEPT !.task_id = None]
                                       ELSE logged[i]]
                    /\ comments' = [c \in {d \in DOMAIN comments : comments[d].task_id # t}
                                     |-> comments[c]]
                    /\ resp' = R(200, None)
                    /\ UNCHANGED <<projects, members, tags, emitted, connected_users, rooms, delivered, ids, now, inflight>>

\* PUT /api/tasks/<task_id>/status
update_task_status(actor, t, new_status) ==
    LET R(code, exc) == Reply("update_task_status", actor, t, new_status, code, exc)
    IN  /\ Len(activity) < MaxLog
        /\ now <= MaxClock
        /\ IF t \notin DOMAIN tasks
             THEN Refuse(R(validate_json("NotFound"), "NotFound"))
           ELSE
           LET row == tasks[t]
               p == row.project_id
               access == TaskAccess(actor, p, TRUE)
               old_status == row.status
               completed_at ==
                   IF new_status = "done" THEN now
                   ELSE IF old_status = "done" THEN NULL_TIME
                   ELSE row.completed_at
           IN  IF access = "NameError"
                 THEN Refuse(R(validate_json("NameError"), "NameError"))
               ELSE IF access = "denied"
                 THEN Refuse(R(403, None))
               ELSE /\ tasks' = [tasks EXCEPT ![t] =
                                    [row EXCEPT !.status = new_status,
                                                !.completed_at = completed_at]]
                    /\ now' = IF new_status = "done" THEN now + 1 ELSE now
                    /\ activity' = log_activity(activity, actor, p, "status_changed", t,
                                                [old_status |-> old_status,
                                                 new_status |-> new_status])
                    /\ resp' = R(200, None)
                    /\ UNCHANGED <<projects, members, tags, task_tags, emitted, connected_users, rooms, delivered, comments, ids, inflight>>

\* TaskAssignSchema().load: assignee_id = fields.UUID(required=True), allow_none
\* not set, so null is a ValidationError.
TaskAssignSchema_load_allow_none(assignee_id) == "ok"

TaskAssignSchema_load(assignee_id) ==
    IF assignee_id = None THEN "ValidationError" ELSE "ok"

\* assign_task's test of the assignee, after get_or_404(User, assignee_id):
\*   if project.owner_id != assignee.id:
\*       assignee_member = ProjectMember.query...first()
\*       if not assignee_member: return 400
AssigneeCheck_skipped(p, assignee_id) == "ok"

AssigneeCheck(p, assignee_id) ==
    IF projects[p].owner_id = assignee_id THEN "ok"
    ELSE IF "ProjectMember" \notin TasksGlobals THEN "NameError"
    ELSE IF MemberRow(p, assignee_id) = None THEN "not_member"
    ELSE "ok"

\* PUT /api/tasks/<task_id>/assign
assign_task(actor, t, assignee_id) ==
    LET R(code, exc) == Reply("assign_task", actor, t, assignee_id, code, exc)
    IN  /\ Len(activity) < MaxLog
        /\ IF TaskAssignSchema_load(assignee_id) # "ok"
             THEN Refuse(R(validate_json("ValidationError"), "ValidationError"))
           ELSE IF t \notin DOMAIN tasks
             THEN Refuse(R(validate_json("NotFound"), "NotFound"))
           ELSE
           LET row == tasks[t]
               p == row.project_id
               access == TaskAccess(actor, p, FALSE)
               old_assignee_id == row.assignee_id
           IN  IF access = "NameError"
                 THEN Refuse(R(validate_json("NameError"), "NameError"))
               ELSE IF access = "denied"
                 THEN Refuse(R(403, None))
               ELSE IF assignee_id \notin Users
                 THEN Refuse(R(validate_json("NotFound"), "NotFound"))
               ELSE IF AssigneeCheck(p, assignee_id) = "NameError"
                 THEN Refuse(R(validate_json("NameError"), "NameError"))
               ELSE IF AssigneeCheck(p, assignee_id) = "not_member"
                 THEN Refuse(R(400, None))
               ELSE /\ tasks' = [tasks EXCEPT ![t] = [row EXCEPT !.assignee_id = assignee_id]]
                    /\ activity' = log_activity(activity, actor, p, "assigned", t,
                                                [assignee_username |-> assignee_id,
                                                 old_assignee_id |-> StrId(old_assignee_id)])
                    /\ resp' = R(200, None)
                    /\ UNCHANGED <<projects, members, tags, task_tags, emitted, connected_users, rooms, delivered, comments, ids, now, inflight>>

\* A request that is between its first read and its last commit: a request number that tells it
\* from every other one in flight, the handler, the caller, the id in the URL, the
\* value sent, the values its session loaded (name or status, completed_at) and
\* the datetime.utcnow() it took.
InFlight(op, actor, target, name, loaded, loaded_at, utcnow) ==
    LET free == (1..MaxInflight) \ {r.rid : r \in inflight}
    IN  [rid |-> CHOOSE i \in free : \A j \in free : i <= j,
         op |-> op, actor |-> actor, target |-> target, name |-> name,
         loaded |-> loaded, loaded_at |-> loaded_at, utcnow |-> utcnow]

\* Task.mark_complete: status DONE, completed_at utcnow(), then save() commits.
mark_complete(row, time) == [row EXCEPT !.status = "done", !.completed_at = time]

\* POST /api/tasks/<task_id>/complete.  No validate_json around it.  The handler
\* commits twice: Task.mark_complete -> save() commits the task row (tasks.py 445),
\* and the handler's own commit (456) follows log_activity.  Between the two the row
\* is committed, so other requests read and write it.
\*
\* complete_task is the handler up to and including its first commit: the refusals
\* answer at once; otherwise the task row is committed and the request is in flight.
\* The first commit expires every object of the session, so the request carries
\* nothing it loaded across it but the identity of the user and the task.
complete_task(actor, t) ==
    LET R(code, exc) == Reply("complete_task", actor, t, None, code, exc)
    IN  /\ Len(activity) + Cardinality(inflight) < MaxLog
        /\ Cardinality(inflight) < MaxInflight
        /\ now <= MaxClock
        /\ IF t \notin DOMAIN tasks
             THEN Refuse(R(404, "NotFound"))
           ELSE
           LET row == tasks[t]
               p == row.project_id
               access == TaskAccess(actor, p, TRUE)
           IN  IF access = "NameError"
                 THEN Refuse(R(flask_unhandled("NameError"), "NameError"))
               ELSE IF access = "denied"
                 THEN Refuse(R(403, None))
               ELSE /\ tasks' = [tasks EXCEPT ![t] = mark_complete(row, now)]
                    /\ now' = now + 1
                    /\ inflight' = inflight \cup
                          {InFlight("complete_task", actor, t, None, None,
                                    NULL_TIME, NULL_TIME)}
                    /\ UNCHANGED <<projects, members, tags, task_tags, activity, emitted,
                                   connected_users, rooms, delivered, comments, ids, resp>>

\* complete_task from log_activity on (tasks.py 447-464): the log row and the second
\* commit.  The handler reads the expired task again for task.title; a task deleted
\* in between raises and the except branch answers 500.  The handler assigns nothing
\* to the task here, so what another request committed to the row stays.
complete_task_finish(r) ==
    LET t == r.target
        R(code, exc) == Reply("complete_task", r.actor, t, None, code, exc)
    IN  /\ r \in inflight
        /\ r.op = "complete_task"
        /\ inflight' = inflight \ {r}
        /\ IF t \notin DOMAIN tasks
             THEN /\ resp' = R(500, "ObjectDeletedError")
                  /\ UNCHANGED activity
             ELSE /\ activity' = log_activity(activity, r.actor, tasks[t].project_id,
                                              "completed", t,
                                              [task_title |-> tasks[t].title])
                  /\ resp' = R(200, None)
        /\ UNCHANGED <<projects, members, tasks, tags, task_tags, emitted, connected_users,
                       rooms, delivered, comments, ids, now>>

\* -------------------------------------------------------- app/api/tags.py
\* The access check of the tag handlers (ProjectMember is imported here):
\*   if project.owner_id != current_user.id:
\*       member = ProjectMember.query...first()
\*       if not member or member.role.value == 'viewer': return 403
TagAccess(actor, p) ==
    IF projects[p].owner_id = actor THEN "ok"
    ELSE IF MemberRow(p, actor) = None \/ MemberRow(p, actor) = "viewer" THEN "denied"
    ELSE "ok"

\* Tag.query.filter_by(name=name, project_id=project_id).first() is not None,
\* project_id None selecting the global tags (IS NULL).
TagExists(name, project_id) ==
    \E g \in DOMAIN tags : tags[g].name = name /\ tags[g].project_id = project_id

\* create_tag up to and including its existence check: the response that ends
\* the request there, or code 0 when the request goes on to insert.
create_tag_check(actor, name, project_id) ==
    IF project_id # None /\ project_id \notin DOMAIN projects
      THEN [code |-> validate_json("NotFound"), exc |-> "NotFound"]
    ELSE IF project_id # None /\ TagAccess(actor, project_id) = "denied"
      THEN [code |-> 403, exc |-> None]
    ELSE IF TagExists(name, project_id)
      THEN [code |-> 400, exc |-> None]
    ELSE [code |-> 0, exc |-> None]

\* create_tag from db.session.add(tag) on: the insert and the commit.
create_tag_insert(actor, name, project_id) ==
    /\ tags' = Put(tags, TagIdSeq[ids.tag + 1], [name |-> name, project_id |-> project_id])
    /\ ids' = [ids EXCEPT !.tag = @ + 1]
    /\ resp' = Reply("create_tag", actor, project_id, name, 201, None)

\* POST /api/tags, handled without another request in between.
create_tag(actor, name, project_id) ==
    LET c == create_tag_check(actor, name, project_id)
    IN  /\ ids.tag < MaxTags
        /\ inflight = {}
        /\ IF c.code # 0
             THEN Refuse(Reply("create_tag", actor, project_id, name, c.code, c.exc))
             ELSE /\ create_tag_insert(actor, name, project_id)
                  /\ UNCHANGED <<projects, members, tasks, task_tags, activity, emitted, connected_users, rooms, delivered, comments,
                                 now, inflight>>

\* update_tag up to and including its existence check (data: the name sent, or
\* Absent): the response that ends the request there, or code 0.
update_tag_check(actor, g, name) ==
    IF g \notin DOMAIN tags
      THEN [code |-> validate_json("NotFound"), exc |-> "NotFound"]
    ELSE IF tags[g].project_id = None
      THEN [code |-> 403, exc |-> None]
    ELSE IF TagAccess(actor, tags[g].project_id) = "denied"
      THEN [code |-> 403, exc |-> None]
    ELSE IF name # Absent /\ name # tags[g].name /\ TagExists(name, tags[g].project_id)
      THEN [code |-> 400, exc |-> None]
    ELSE [code |-> 0, exc |-> None]

\* update_tag from its setattr loop on: the write and the commit.  The flush writes
\* the name only when the value assigned differs from the one the session loaded.
update_tag_write(actor, g, name, loaded) ==
    /\ tags' = IF name # Absent /\ name # loaded
                 THEN [tags EXCEPT ![g].name = name] ELSE tags
    /\ resp' = Reply("update_tag", actor, g, name, 200, None)

\* PUT /api/tags/<tag_id>, handled without another request in between.
update_tag(actor, g, name) ==
    LET c == update_tag_check(actor, g, name)
    IN  /\ inflight = {}
        /\ IF c.code # 0
             THEN Refuse(Reply("update_tag", actor, g, name, c.code, c.exc))
             ELSE /\ update_tag_write(actor, g, name, tags[g].name)
                  /\ UNCHANGED <<projects, members, tasks, task_tags, activity, emitted, connected_users, rooms, delivered, comments,
                                 ids, now, inflight>>

\* delete_tag's else branch of "if tag.project_id:": a global tag (project_id
\* None) is answered 403 for every caller.
GlobalTagRefused_never(g) == FALSE

GlobalTagRefused(g) == tags[g].project_id = None

\* DELETE /api/tags/<tag_id>.  No validate_json.  The tag's task_tags rows go
\* with it (cascade='all, delete-orphan').
delete_tag(actor, g) ==
    LET R(code, exc) == Reply("delete_tag", actor, g, None, code, exc)
    IN  IF g \notin DOMAIN tags
          THEN Refuse(R(404, "NotFound"))
        ELSE IF tags[g].project_id # None /\ TagAccess(actor, tags[g].project_id) = "denied"
          THEN Refuse(R(403, None))
        ELSE IF GlobalTagRefused(g)
          THEN Refuse(R(403, None))
        ELSE /\ tags' = Drop(tags, g)
             /\ task_tags' = {l \in task_tags : l.tag_id # g}
             /\ resp' = R(200, None)
             /\ UNCHANGED <<projects, members, tasks, comments, activity, emitted, connected_users, rooms, delivered, ids,
                            now, inflight>>

\* POST /api/tags: the request runs to its existence check and is then
\* overtaken by other requests before it inserts.
create_tag_begin(actor, name, project_id) ==
    LET c == create_tag_check(actor, name, project_id)
        creating == {r \in inflight : r.op = "create_tag"}
    IN  /\ Cardinality(inflight) < MaxInflight
        /\ ids.tag + Cardinality(creating) < MaxTags
        /\ IF c.code # 0
             THEN Refuse(Reply("create_tag", actor, project_id, name, c.code, c.exc))
             ELSE /\ inflight' = inflight \cup
                        {InFlight("create_tag", actor, project_id, name, None,
                                  NULL_TIME, NULL_TIME)}
                  /\ UNCHANGED <<projects, members, tasks, tags, task_tags, activity,
                                 emitted, connected_users, rooms, delivered, comments, ids, now, resp>>

\* PUT /api/tags/<tag_id>: likewise, stopped after its existence check.
update_tag_begin(actor, g, name) ==
    LET c == update_tag_check(actor, g, name)
    IN  /\ Cardinality(inflight) < MaxInflight
        /\ IF c.code # 0
             THEN Refuse(Reply("update_tag", actor, g, name, c.code, c.exc))
             ELSE /\ inflight' = inflight \cup
                        {InFlight("update_tag", actor, g, name, tags[g].name,
                                  NULL_TIME, NULL_TIME)}
                  /\ UNCHANGED <<projects, members, tasks, tags, task_tags, activity,
                                 emitted, connected_users, rooms, delivered, comments, ids, now, resp>>

\* A request stopped after its check resumes: it writes and commits.
tag_request_commit(r) ==
    /\ r \in inflight
    /\ inflight' = inflight \ {r}
    /\ IF r.op = "create_tag"
         THEN create_tag_insert(r.actor, r.name, r.target)
         ELSE update_tag_write(r.actor, r.target, r.name, r.loaded) /\ ids' = ids
    /\ UNCHANGED <<projects, members, tasks, task_tags, activity, emitted, connected_users, rooms, delivered, comments, now>>

\* tag.project_id and tag.project_id != project.id
TagScopeMismatch(g, p) == tags[g].project_id # None /\ tags[g].project_id # p

\* POST /api/tags/tasks/<task_id>/tags.  No validate_json around it.  A missing
\* tag raises inside the try (rollback, 500); a tag of another project returns
\* 400 before the commit, and the session is discarded with the request.
add_tag_to_task(actor, t, tag_ids) ==
    LET R(code, exc) == Reply("add_tag_to_task", actor, t, None, code, exc)
    IN  IF t \notin DOMAIN tasks
          THEN Refuse(R(404, "NotFound"))
        ELSE
        LET p == tasks[t].project_id
            bad == {i \in DOMAIN tag_ids :
                       tag_ids[i] \notin DOMAIN tags \/ TagScopeMismatch(tag_ids[i], p)}
            first == CHOOSE i \in bad : \A j \in bad : i <= j
        IN  IF TagAccess(actor, p) = "denied"
              THEN Refuse(R(403, None))
            ELSE IF bad # {} /\ tag_ids[first] \notin DOMAIN tags
              THEN Refuse(R(500, "NotFound"))
            ELSE IF bad # {}
              THEN Refuse(R(400, None))
            ELSE /\ task_tags' = task_tags \cup Links(t, tag_ids)
                 /\ resp' = R(200, None)
                 /\ UNCHANGED <<projects, members, tasks, tags, activity, emitted, connected_users, rooms, delivered, comments, ids,
                                now, inflight>>

\* DELETE /api/tags/tasks/<task_id>/tags/<tag_id>.  No validate_json.
remove_tag_from_task(actor, t, g) ==
    LET R(code, exc) == Reply("remove_tag_from_task", actor, t, g, code, exc)
        link == [task_id |-> t, tag_id |-> g]
    IN  IF t \notin DOMAIN tasks \/ g \notin DOMAIN tags
          THEN Refuse(R(404, "NotFound"))
        ELSE IF TagAccess(actor, tasks[t].project_id) = "denied"
          THEN Refuse(R(403, None))
        ELSE IF link \notin task_tags
          THEN Refuse(R(404, None))
        ELSE /\ task_tags' = task_tags \ {link}
             /\ resp' = R(200, None)
             /\ UNCHANGED <<projects, members, tasks, tags, activity, emitted,
                            connected_users, rooms, delivered, comments, ids, now,
                            inflight>>

\* ---------------------------------------------------- app/api/comments.py
\* POST /api/comments/tasks/<task_id>/comments.  ProjectMember is imported
\* here; the test is "if not member", so every role may comment.
create_comment(actor, t, content) ==
    LET R(code, exc) == Reply("create_comment", actor, t, content, code, exc)
        c == CommentIdSeq[ids.comment + 1]
    IN  /\ Len(activity) < MaxLog
        /\ ids.comment < MaxComments
        /\ IF t \notin DOMAIN tasks
             THEN Refuse(R(validate_json("NotFound"), "NotFound"))
           ELSE IF projects[tasks[t].project_id].owner_id # actor
                   /\ MemberRow(tasks[t].project_id, actor) = None
             THEN Refuse(R(403, None))
           ELSE /\ comments' = Put(comments, c, [task_id |-> t, user_id |-> actor,
                                                 content |-> content, is_edited |-> FALSE])
                /\ ids' = [ids EXCEPT !.comment = @ + 1]
                /\ activity' = log_activity(activity, actor, tasks[t].project_id,
                                            "commented", t, [comment_preview |-> content])
                /\ resp' = R(201, None)
                /\ UNCHANGED <<projects, members, tasks, tags, task_tags, emitted, connected_users, rooms, delivered, now,
                               inflight>>

\* update_comment's test of the caller: comment.user_id != current_user.id.
MayEditComment_with_owner(actor, c) ==
    \/ comments[c].user_id = actor
    \/ projects[tasks[comments[c].task_id].project_id].owner_id = actor

MayEditComment(actor, c) == comments[c].user_id = actor

\* PUT /api/comments/<comment_id>: content set, mark_edited() -> save() commits
\* content and is_edited together; the handler's own commit (136) that follows has
\* nothing left to write, so the handler changes the database in one transaction.
update_comment(actor, c, content) ==
    LET R(code, exc) == Reply("update_comment", actor, c, content, code, exc)
    IN  IF c \notin DOMAIN comments
          THEN Refuse(R(validate_json("NotFound"), "NotFound"))
        ELSE IF ~MayEditComment(actor, c)
          THEN Refuse(R(403, None))
        ELSE /\ comments' = [comments EXCEPT ![c].content = content, ![c].is_edited = TRUE]
             /\ resp' = R(200, None)
             /\ UNCHANGED <<projects, members, tasks, tags, task_tags, activity, emitted, connected_users, rooms, delivered,
                            ids, now, inflight>>

\* delete_comment's can_delete: the author, else the owner of the project of
\* the comment's task, else a member of it whose role is admin.
can_delete(actor, c) ==
    LET p == tasks[comments[c].task_id].project_id
    IN  \/ comments[c].user_id = actor
        \/ projects[p].owner_id = actor
        \/ MemberRow(p, actor) = "admin"

\* DELETE /api/comments/<comment_id>.  No validate_json; writes no activity row.
delete_comment(actor, c) ==
    LET R(code, exc) == Reply("delete_comment", actor, c, None, code, exc)
    IN  IF c \notin DOMAIN comments
          THEN Refuse(R(404, "NotFound"))
        ELSE IF ~can_delete(actor, c)
          THEN Refuse(R(403, None))
        ELSE /\ comments' = Drop(comments, c)
             /\ resp' = R(200, None)
             /\ UNCHANGED <<projects, members, tasks, tags, task_tags, activity, emitted, connected_users, rooms, delivered,
                            ids, now, inflight>>

\* ---------------------------------------------------- app/api/projects.py
\* POST /api/projects: the caller becomes the owner.
create_project(actor) ==
    LET p == ProjectIdSeq[ids.project + 1]
    IN  /\ ids.project < MaxProjects
        /\ projects' = Put(projects, p, [owner_id |-> actor, is_archived |-> FALSE])
        /\ ids' = [ids EXCEPT !.project = @ + 1]
        /\ resp' = Reply("create_project", actor, p, None, 201, None)
        /\ UNCHANGED <<members, tasks, tags, task_tags, activity, emitted, connected_users, rooms, delivered, comments, now, inflight>>

\* role_hierarchy of permission_required.
role_hierarchy(role) ==
    CASE role = "viewer" -> 1 [] role = "member" -> 2 [] role = "admin" -> 3

\* The role permission_required acts on, in the order it tests: the owner test
\* comes first (project.owner_id == current_user.id), then the lookup of the
\* caller's project_members row.
resolve_role_row_first(actor, p) ==
    IF MemberRow(p, actor) # None THEN MemberRow(p, actor)
    ELSE IF projects[p].owner_id = actor THEN "owner"
    ELSE "none"

resolve_role(actor, p) ==
    IF projects[p].owner_id = actor THEN "owner"
    ELSE IF MemberRow(p, actor) = None THEN "none"
    ELSE MemberRow(p, actor)

\* permission_required(level), up to its call of the view: the owner passes;
\* without a membership row, or with a role below the level, 403.
permission_required_no_rank(actor, p, level) ==
    IF resolve_role(actor, p) = "none" THEN "denied" ELSE "ok"

permission_required(actor, p, level) ==
    LET role == resolve_role(actor, p)
    IN  IF role = "owner" THEN "ok"
        ELSE IF role = "none" THEN "denied"
        ELSE IF role_hierarchy(role) < role_hierarchy(level) THEN "denied"
        ELSE "ok"

\* The keyword arguments permission_required calls the view with:
\*   def decorated_function(current_user, project_id, *args, **kwargs):
\*       return f(current_user=current_user, project=project, *args, **kwargs)
\* project_id is bound by the wrapper's own parameter and is not passed on.
permission_required_passes(url_kwargs) ==
    {"current_user", "project"} \cup (url_kwargs \ {"project_id"})

\* Python's call of a function whose parameters have no defaults.
CallView(parameters, passed) ==
    IF parameters \subseteq passed THEN "ok" ELSE "TypeError"

\* GET /api/projects/<project_id>.  No validate_json.
\* def get_project(current_user, project, project_id)
get_project(actor, p) ==
    LET R(code, exc) == Reply("get_project", actor, p, None, code, exc)
        call == CallView({"current_user", "project", "project_id"},
                         permission_required_passes({"project_id"}))
    IN  IF p \notin DOMAIN projects
          THEN Refuse(R(404, "NotFound"))
        ELSE IF permission_required(actor, p, "viewer") = "denied"
          THEN Refuse(R(403, None))
        ELSE IF call # "ok"
          THEN Refuse(R(flask_unhandled(call), call))
        ELSE Refuse(R(200, None))

\* Request bodies that pass ProjectUpdateSchema, as far as is_archived goes:
\* the field is sent with a boolean, or is not sent.
UpdateProjectData ==
    [has_is_archived : {TRUE}, is_archived : BOOLEAN]
    \cup [has_is_archived : {FALSE}, is_archived : {FALSE}]

\* PUT /api/projects/<project_id>
\* def update_project(current_user, project, project_id, validated_data)
update_project(actor, p, data) ==
    LET R(code, exc) == Reply("update_project", actor, p, None, code, exc)
        passed == permission_required_passes({"project_id"}) \cup {"validated_data"}
        call == CallView({"current_user", "project", "project_id", "validated_data"}, passed)
    IN  IF p \notin DOMAIN projects
          THEN Refuse(R(404, "NotFound"))
        ELSE IF permission_required(actor, p, "admin") = "denied"
          THEN Refuse(R(403, None))
        ELSE IF call # "ok"
          THEN Refuse(R(validate_json(call), call))
        ELSE /\ projects' = IF data.has_is_archived
                            THEN [projects EXCEPT ![p].is_archived = data.is_archived]
                            ELSE projects
             /\ resp' = R(200, None)
             /\ UNCHANGED <<members, tasks, tags, task_tags, activity, emitted, connected_users, rooms, delivered, comments, ids, now,
                            inflight>>

\* DELETE /api/projects/<project_id>: the owner only; archives the project.
delete_project_any_caller(actor, p) ==
    LET R(code, exc) == Reply("delete_project", actor, p, None, code, exc)
    IN  IF p \notin DOMAIN projects
          THEN Refuse(R(404, "NotFound"))
        ELSE /\ projects' = [projects EXCEPT ![p].is_archived = TRUE]
             /\ resp' = R(200, None)
             /\ UNCHANGED <<members, tasks, tags, task_tags, activity, emitted, connected_users, rooms, delivered, comments, ids, now,
                            inflight>>

delete_project(actor, p) ==
    LET R(code, exc) == Reply("delete_project", actor, p, None, code, exc)
    IN  IF p \notin DOMAIN projects
          THEN Refuse(R(404, "NotFound"))
        ELSE IF projects[p].owner_id # actor
          THEN Refuse(R(403, None))
        ELSE /\ projects' = [projects EXCEPT ![p].is_archived = TRUE]
             /\ resp' = R(200, None)
             /\ UNCHANGED <<members, tasks, tags, task_tags, activity, emitted, connected_users, rooms, delivered, comments, ids, now,
                            inflight>>

\* POST /api/projects/<project_id>/archive.  No validate_json.
\* def toggle_archive_project(current_user, project, project_id)
toggle_archive_project(actor, p) ==
    LET R(code, exc) == Reply("toggle_archive_project", actor, p, None, code, exc)
        call == CallView({"current_user", "project", "project_id"},
                         permission_required_passes({"project_id"}))
    IN  IF p \notin DOMAIN projects
          THEN Refuse(R(404, "NotFound"))
        ELSE IF permission_required(actor, p, "admin") = "denied"
          THEN Refuse(R(403, None))
        ELSE IF call # "ok"
          THEN Refuse(R(flask_unhandled(call), call))
        ELSE /\ projects' = [projects EXCEPT ![p].is_archived = ~@]
             /\ resp' = R(200, None)
             /\ UNCHANGED <<members, tasks, tags, task_tags, activity, emitted, connected_users, rooms, delivered, comments, ids, now,
                            inflight>>

\* POST /api/projects/<project_id>/members
\* def add_project_member(current_user, project, project_id, validated_data)
add_project_member_unchecked(actor, p, user_id, role) ==
    LET R(code, exc) == Reply("add_project_member", actor, p, user_id, code, exc)
    IN  IF p \notin DOMAIN projects
          THEN Refuse(R(404, "NotFound"))
        ELSE IF permission_required(actor, p, "admin") = "denied"
          THEN Refuse(R(403, None))
        ELSE /\ members' = members \cup
                    {[project_id |-> p, user_id |-> user_id, role |-> role]}
             /\ resp' = R(201, None)
             /\ UNCHANGED <<projects, tasks, tags, task_tags, activity, emitted, connected_users, rooms, delivered, comments, ids, now,
                            inflight>>

add_project_member(actor, p, user_id, role) ==
    LET R(code, exc) == Reply("add_project_member", actor, p, user_id, code, exc)
        passed == permission_required_passes({"project_id"}) \cup {"validated_data"}
        call == CallView({"current_user", "project", "project_id", "validated_data"}, passed)
    IN  IF p \notin DOMAIN projects
          THEN Refuse(R(404, "NotFound"))
        ELSE IF permission_required(actor, p, "admin") = "denied"
          THEN Refuse(R(403, None))
        ELSE IF call # "ok"
          THEN Refuse(R(validate_json(call), call))
        ELSE IF user_id \notin Users
          THEN Refuse(R(validate_json("NotFound"), "NotFound"))
        ELSE IF MemberRow(p, user_id) # None
          THEN Refuse(R(400, None))
        ELSE IF StrId(projects[p].owner_id) = StrId(user_id)
          THEN Refuse(R(400, None))
        ELSE /\ members' = members \cup
                    {[project_id |-> p, user_id |-> user_id, role |-> role]}
             /\ resp' = R(201, None)
             /\ UNCHANGED <<projects, tasks, tags, task_tags, activity, emitted, connected_users, rooms, delivered, comments, ids, now,
                            inflight>>

\* PUT /api/projects/<project_id>/members/<user_id>
\* def update_member_role(current_user, project, project_id, user_id, validated_data)
update_member_role(actor, p, user_id, new_role) ==
    LET R(code, exc) == Reply("update_member_role", actor, p, user_id, code, exc)
        passed == permission_required_passes({"project_id", "user_id"}) \cup {"validated_data"}
        call == CallView({"current_user", "project", "project_id", "user_id",
                          "validated_data"}, passed)
    IN  IF p \notin DOMAIN projects
          THEN Refuse(R(404, "NotFound"))
        ELSE IF permission_required(actor, p, "admin") = "denied"
          THEN Refuse(R(403, None))
        ELSE IF call # "ok"
          THEN Refuse(R(validate_json(call), call))
        ELSE IF MemberRow(p, user_id) = None
          THEN Refuse(R(404, None))
        ELSE /\ members' = {IF m.project_id = p /\ m.user_id = user_id
                            THEN [m EXCEPT !.role = new_role] ELSE m : m \in members}
             /\ resp' = R(200, None)
             /\ UNCHANGED <<projects, tasks, tags, task_tags, activity, emitted, connected_users, rooms, delivered, comments, ids, now,
                            inflight>>

\* DELETE /api/projects/<project_id>/members/<user_id>.  No validate_json.
\* def remove_project_member(current_user, project, project_id, user_id)
remove_project_member_unchecked(actor, p, user_id) ==
    LET R(code, exc) == Reply("remove_project_member", actor, p, user_id, code, exc)
    IN  IF p \notin DOMAIN projects
          THEN Refuse(R(404, "NotFound"))
        ELSE IF permission_required(actor, p, "admin") = "denied"
          THEN Refuse(R(403, None))
        ELSE /\ members' = {m \in members : ~(m.project_id = p /\ m.user_id = user_id)}
             /\ resp' = R(200, None)
             /\ UNCHANGED <<projects, tasks, tags, task_tags, activity, emitted, connected_users, rooms, delivered, comments, ids, now,
                            inflight>>

remove_project_member(actor, p, user_id) ==
    LET R(code, exc) == Reply("remove_project_member", actor, p, user_id, code, exc)
        passed == permission_required_passes({"project_id", "user_id"})
        call == CallView({"current_user", "project", "project_id", "user_id"}, passed)
    IN  IF p \notin DOMAIN projects
          THEN Refuse(R(404, "NotFound"))
        ELSE IF permission_required(actor, p, "admin") = "denied"
          THEN Refuse(R(403, None))
        ELSE IF call # "ok"
          THEN Refuse(R(flask_unhandled(call), call))
        ELSE IF StrId(projects[p].owner_id) = StrId(user_id)
          THEN Refuse(R(400, None))
        ELSE IF MemberRow(p, user_id) = None
          THEN Refuse(R(404, None))
        ELSE /\ members' = {m \in members : ~(m.project_id = p /\ m.user_id = user_id)}
             /\ resp' = R(200, None)
             /\ UNCHANGED <<projects, tasks, tags, task_tags, activity, emitted, connected_users, rooms, delivered, comments, ids, now,
                            inflight>>

\* ------------------------------------------------------------ the machine
\* The database the server starts on: the registered users, project p1 of u1,
\* and one project_members row for u2 in p1, of any role.
Init ==
    /\ projects = [p \in {"p1"} |-> [owner_id |-> "u1", is_archived |-> FALSE]]
    /\ members \in {{[project_id |-> "p1", user_id |-> "u2", role |-> r]} : r \in MemberRole}
    /\ tasks = <<>>
    /\ tags = <<>>
    /\ task_tags = {}
    /\ comments = <<>>
    /\ activity = <<>>
    /\ emitted = <<>>
    /\ connected_users = <<>>
    /\ rooms = {}
    /\ delivered = [s \in Sids |-> <<>>]
    /\ ids = [project |-> 1, task |-> 0, tag |-> 0, comment |-> 0]
    /\ now = 1
    /\ inflight = {}
    /\ resp = Reply("none", None, None, None, 0, None)

\* Request bodies that pass TaskCreateSchema.
CreateTaskData(projs, assignees, statuses, batches) ==
    [title : Titles, project_id : projs, assignee_id : assignees,
     status : statuses, tag_ids : batches]

\* Request bodies that pass TaskUpdateSchema: status and assignee_id, or tag_ids.
UpdateTaskData(statuses, assignees, batches) ==
    [status : statuses, assignee_id : assignees, has_tag_ids : {FALSE}, tag_ids : {<<>>}]
    \cup
    [status : {Absent}, assignee_id : {Absent}, has_tag_ids : {TRUE}, tag_ids : batches]

\* The six task handlers; create_task and update_task on requests that set the
\* status and leave assignee and tags out.
NextTasks ==
    \/ \E actor \in Users,
          data \in CreateTaskData({"p1"}, {None}, TaskStatus \cup {None}, {<<>>}) :
          create_task(actor, data)
    \/ \E actor \in Users, t \in TaskIds,
          data \in UpdateTaskData(TaskStatus \cup {Absent}, {Absent}, {}) :
          update_task(actor, t, data)
    \/ \E actor \in Users, t \in TaskIds : delete_task(actor, t)
    \/ \E actor \in Users, t \in TaskIds, s \in TaskStatus : update_task_status(actor, t, s)
    \/ \E actor \in Users, t \in TaskIds, a \in Users \cup {None} : assign_task(actor, t, a)
    \/ \E actor \in Users, t \in TaskIds : complete_task(actor, t)
    \/ \E r \in inflight : complete_task_finish(r)

SpecTasks == Init /\ [][NextTasks]_vars

\* A second project, created by u3, tags, and the three ways a tag gets onto a
\* task; create_task and update_task on requests that carry at most one tag id
\* and leave status and assignee out.
NextTags ==
    \/ \E actor \in {"u3"} : create_project(actor)
    \/ \E actor \in Users, name \in TagNames, p \in ProjectIds \cup {None} :
          create_tag(actor, name, p)
    \/ \E actor \in Users, t \in TaskIds, batch \in SeqsUpTo(TagIds, MaxBatch) :
          add_tag_to_task(actor, t, batch)
    \/ \E actor \in Users, t \in TaskIds, g \in TagIds : remove_tag_from_task(actor, t, g)
    \/ \E actor \in Users,
          data \in CreateTaskData(ProjectIds, {None}, {None}, SeqsUpTo(TagIds, 1)) :
          create_task(actor, data)
    \/ \E actor \in Users, t \in TaskIds,
          data \in UpdateTaskData({}, {}, SeqsUpTo(TagIds, 1)) :
          update_task(actor, t, data)

SpecTags == Init /\ [][NextTags]_vars

\* create_tag and update_tag requests served by concurrent workers: a request
\* is handled in one step, or runs to its existence check and commits at some
\* later step.
NextTagRace ==
    \/ \E actor \in Users, name \in TagNames, p \in ProjectIds \cup {None} :
          create_tag(actor, name, p)
    \/ \E actor \in Users, g \in TagIds, name \in TagNames \cup {Absent} :
          update_tag(actor, g, name)
    \/ \E actor \in Users, name \in TagNames, p \in ProjectIds \cup {None} :
          create_tag_begin(actor, name, p)
    \/ \E actor \in Users, g \in TagIds, name \in TagNames \cup {Absent} :
          update_tag_begin(actor, g, name)
    \/ \E r \in inflight : tag_request_commit(r)

SpecTagRace == Init /\ [][NextTagRace]_vars

\* Projects and their rosters.
NextMembers ==
    \/ \E actor \in Users : create_project(actor)
    \/ \E actor \in Users, p \in ProjectIds, u \in Users, role \in MemberRole :
          add_project_member(actor, p, u, role)
    \/ \E actor \in Users, p \in ProjectIds, u \in Users, role \in MemberRole :
          update_member_role(actor, p, u, role)
    \/ \E actor \in Users, p \in ProjectIds, u \in Users :
          remove_project_member(actor, p, u)

SpecMembers == Init /\ [][NextMembers]_vars

\* Tasks of p1 and their comments: create_task on minimal bodies, the comment
\* handlers, and delete_task, which takes the task's comments with it.
NextComments ==
    \/ \E actor \in Users,
          data \in CreateTaskData({"p1"}, {None}, {None}, {<<>>}) :
          create_task(actor, data)
    \/ \E actor \in Users, t \in TaskIds : delete_task(actor, t)
    \/ \E actor \in Users, t \in TaskIds, content \in Contents :
          create_comment(actor, t, content)
    \/ \E actor \in Users, c \in CommentIds, content \in Contents :
          update_comment(actor, c, content)
    \/ \E actor \in Users, c \in CommentIds : delete_comment(actor, c)

SpecComments == Init /\ [][NextComments]_vars

\* Tags of p1 and global tags, their update and deletion, and the three ways a
\* tag gets onto a task of p1, with up to MaxBatch tag ids in a request.
NextTagAdmin ==
    \/ \E actor \in Users, name \in TagNames, p \in {"p1", None} :
          create_tag(actor, name, p)
    \/ \E actor \in Users, g \in TagIds, name \in TagNames \cup {Absent} :
          update_tag(actor, g, name)
    \/ \E actor \in Users, g \in TagIds : delete_tag(actor, g)
    \/ \E actor \in Users, t \in TaskIds, batch \in SeqsUpTo(TagIds, MaxBatch) :
          add_tag_to_task(actor, t, batch)
    \/ \E actor \in Users, t \in TaskIds, g \in TagIds : remove_tag_from_task(actor, t, g)
    \/ \E actor \in Users,
          data \in CreateTaskData({"p1"}, {None}, {None}, SeqsUpTo(TagIds, MaxBatch)) :
          create_task(actor, data)
    \/ \E actor \in Users, t \in TaskIds,
          data \in UpdateTaskData({}, {}, SeqsUpTo(TagIds, MaxBatch)) :
          update_task(actor, t, data)

SpecTagAdmin == Init /\ [][NextTagAdmin]_vars

\* The database with any project_members table for p1 over u1 and u2: each of
\* them holds no row or one row of some role, the owner included
\* (Project.add_member and the table itself accept a row for the owner); u3
\* holds none.
InitProjects ==
    /\ projects = [p \in {"p1"} |-> [owner_id |-> "u1", is_archived |-> FALSE]]
    /\ \E f \in [{"u1", "u2"} -> MemberRole \cup {None}] :
          members = {[project_id |-> "p1", user_id |-> u, role |-> f[u]] :
                        u \in {v \in {"u1", "u2"} : f[v] # None}}
    /\ tasks = <<>>
    /\ tags = <<>>
    /\ task_tags = {}
    /\ comments = <<>>
    /\ activity = <<>>
    /\ emitted = <<>>
    /\ connected_users = <<>>
    /\ rooms = {}
    /\ delivered = [s \in Sids |-> <<>>]
    /\ ids = [project |-> 1, task |-> 0, tag |-> 0, comment |-> 0]
    /\ now = 1
    /\ inflight = {}
    /\ resp = Reply("none", None, None, None, 0, None)

\* Every project handler; further projects are created by u3.
NextProjects ==
    \/ \E actor \in {"u3"} : create_project(actor)
    \/ \E actor \in Users, p \in ProjectIds : get_project(actor, p)
    \/ \E actor \in Users, p \in ProjectIds, data \in UpdateProjectData :
          update_project(actor, p, data)
    \/ \E actor \in Users, p \in ProjectIds : delete_project(actor, p)
    \/ \E actor \in Users, p \in ProjectIds : toggle_archive_project(actor, p)
    \/ \E actor \in Users, p \in ProjectIds, u \in Users, role \in MemberRole :
          add_project_member(actor, p, u, role)
    \/ \E actor \in Users, p \in ProjectIds, u \in Users, role \in MemberRole :
          update_member_role(actor, p, u, role)
    \/ \E actor \in Users, p \in ProjectIds, u \in Users :
          remove_project_member(actor, p, u)

SpecProjects == InitProjects /\ [][NextProjects]_vars

\* ------------------------------------------------------------------ websockets
\* app/websocket_config.py, app/websocket_events.py, app/services/realtime_service.py

\* Longest log of emits explored.
MaxEmit == 2

\* f"project_{project_id}" and f"{room_type}_{user_id}" with room_type='user'.
project_room(project_id) == [kind |-> "project", id |-> project_id]
user_room(user_id) == [kind |-> "user", id |-> user_id]

\* The connections that are in a room.
Subscribers(rs, room) == {r.sid : r \in {x \in rs : x.room = room}}

\* socketio.emit(event_name, data, room=...): the event is handed to the server for
\* the room; data is the task, the acting user and the one value the event carries.
socketio_emit(log, event_name, room, task_id, actor, value) ==
    Append(log, [event |-> event_name, room |-> room, task_id |-> task_id,
                 actor |-> actor, value |-> value])

broadcast_to_project(log, project_id, event_name, task_id, actor, value) ==
    socketio_emit(log, event_name, project_room(project_id), task_id, actor, value)

broadcast_to_user(log, user_id, event_name, task_id, actor, value) ==
    socketio_emit(log, event_name, user_room(user_id), task_id, actor, value)

\* The server sends each emit once to every connection that is in the emit's room
\* when it is emitted; nothing is stored for connections that join later.
\* skip holds the sender when the emit is made with include_self=False.
Deliver(dl, rs, old, new, skip) ==
    LET fresh == [k \in 1..(Len(new) - Len(old)) |-> Len(old) + k]
        ToSid(s) == SelectSeq(fresh, LAMBDA n : s \in Subscribers(rs, new[n].room) \ skip)
    IN  [s \in Sids |-> dl[s] \o ToSid(s)]

\* The answer of a socket handler to the calling connection (emit(...) without room).
SockReply(op, sid, target, event) == Reply(op, sid, target, None, 0, event)

\* What a socket handler leaves alone: everything the HTTP handlers persist.
UnchangedStore ==
    UNCHANGED <<projects, members, tasks, tags, task_tags, comments, activity, ids, now, inflight>>

\* authenticate_socket_user(): the user the token names, None without a valid token.
authenticate_socket_user(token) == token

handle_connect(sid, token) ==
    /\ sid \notin DOMAIN connected_users
    /\ IF authenticate_socket_user(token) = None
       THEN /\ resp' = SockReply("connect", sid, None, "refused")
            /\ UNCHANGED <<connected_users, rooms>>
       ELSE /\ connected_users' = Put(connected_users, sid, token)
            /\ rooms' = rooms \cup {[sid |-> sid, room |-> user_room(token)]}
            /\ resp' = SockReply("connect", sid, None, "connected")
    /\ UNCHANGED <<emitted, delivered>>
    /\ UnchangedStore

\* The handler leaves the user room and forgets the connection; the server then takes
\* the closed connection out of every room it was in.
handle_disconnect(sid) ==
    /\ sid \in DOMAIN connected_users
    /\ connected_users' = Drop(connected_users, sid)
    /\ rooms' = {r \in rooms : r.sid # sid}
    /\ resp' = SockReply("disconnect", sid, None, None)
    /\ UNCHANGED <<emitted, delivered>>
    /\ UnchangedStore

handle_join_project(sid, project_id) ==
    /\ IF sid \notin DOMAIN connected_users
       THEN /\ resp' = SockReply("join_project", sid, project_id, "error")
            /\ UNCHANGED rooms
       ELSE IF project_id = None
       THEN /\ resp' = SockReply("join_project", sid, project_id, "error")
            /\ UNCHANGED rooms
       ELSE /\ rooms' = rooms \cup {[sid |-> sid, room |-> project_room(project_id)]}
            /\ resp' = SockReply("join_project", sid, project_id, "joined_project")
    /\ UNCHANGED <<connected_users, emitted, delivered>>
    /\ UnchangedStore

handle_leave_project_keeps_room(sid, project_id) ==
    /\ IF sid \notin DOMAIN connected_users \/ project_id = None
       THEN resp' = SockReply("leave_project", sid, project_id, None)
       ELSE resp' = SockReply("leave_project", sid, project_id, "left_project")
    /\ UNCHANGED <<rooms, connected_users, emitted, delivered>>
    /\ UnchangedStore

handle_leave_project(sid, project_id) ==
    /\ IF sid \notin DOMAIN connected_users \/ project_id = None
       THEN /\ resp' = SockReply("leave_project", sid, project_id, None)
            /\ UNCHANGED rooms
       ELSE /\ rooms' = rooms \ {[sid |-> sid, room |-> project_room(project_id)]}
            /\ resp' = SockReply("leave_project", sid, project_id, "left_project")
    /\ UNCHANGED <<connected_users, emitted, delivered>>
    /\ UnchangedStore

\* A handler's emits and their delivery to the rooms as they are when it runs.
EmitSkipping(new, skip) ==
    /\ Len(new) <= MaxEmit
    /\ emitted' = new
    /\ delivered' = Deliver(delivered, rooms, emitted, new, skip)

Emit(new) == EmitSkipping(new, {})

handle_task_status_update(sid, task_id, status, project_id) ==
    /\ IF sid \notin DOMAIN connected_users
       THEN /\ resp' = SockReply("task_status_update", sid, task_id, "error")
            /\ UNCHANGED <<emitted, delivered>>
       ELSE IF None \in {task_id, status, project_id}
       THEN /\ resp' = SockReply("task_status_update", sid, task_id, "error")
            /\ UNCHANGED <<emitted, delivered>>
       ELSE /\ Emit(socketio_emit(emitted, "task_updated", project_room(project_id),
                                  task_id, connected_users[sid], status))
            /\ resp' = SockReply("task_status_update", sid, task_id, None)
    /\ UNCHANGED <<connected_users, rooms>>
    /\ UnchangedStore

handle_task_assignment(sid, task_id, assignee_id, project_id) ==
    /\ IF sid \notin DOMAIN connected_users
       THEN /\ resp' = SockReply("task_assignment_update", sid, task_id, "error")
            /\ UNCHANGED <<emitted, delivered>>
       ELSE IF None \in {task_id, project_id}
       THEN /\ resp' = SockReply("task_assignment_update", sid, task_id, "error")
            /\ UNCHANGED <<emitted, delivered>>
       ELSE LET user_id == connected_users[sid]
                first == socketio_emit(emitted, "task_assigned", project_room(project_id),
                                       task_id, user_id, assignee_id)
            IN  /\ Emit(IF assignee_id # None
                        THEN socketio_emit(first, "task_assigned_to_you",
                                           user_room(assignee_id), task_id, user_id,
                                           assignee_id)
                        ELSE first)
                /\ resp' = SockReply("task_assignment_update", sid, task_id, None)
    /\ UNCHANGED <<connected_users, rooms>>
    /\ UnchangedStore

handle_new_comment(sid, task_id, comment, project_id) ==
    /\ IF sid \notin DOMAIN connected_users
       THEN /\ resp' = SockReply("new_comment", sid, task_id, "error")
            /\ UNCHANGED <<emitted, delivered>>
       ELSE IF None \in {task_id, comment, project_id}
       THEN /\ resp' = SockReply("new_comment", sid, task_id, "error")
            /\ UNCHANGED <<emitted, delivered>>
       ELSE /\ Emit(socketio_emit(emitted, "comment_added", project_room(project_id),
                                  task_id, connected_users[sid], comment))
            /\ resp' = SockReply("new_comment", sid, task_id, None)
    /\ UNCHANGED <<connected_users, rooms>>
    /\ UnchangedStore

\* The typing indicator goes to the project room without the sender; the handler
\* answers nothing, whatever it does.
handle_user_typing(sid, task_id, project_id, is_typing) ==
    /\ IF sid \notin DOMAIN connected_users \/ None \in {task_id, project_id}
       THEN UNCHANGED <<emitted, delivered>>
       ELSE EmitSkipping(socketio_emit(emitted, "user_typing_status",
                                       project_room(project_id), task_id,
                                       connected_users[sid],
                                       IF is_typing THEN "True" ELSE "False"),
                         {sid})
    /\ resp' = SockReply("user_typing", sid, task_id, None)
    /\ UNCHANGED <<connected_users, rooms>>
    /\ UnchangedStore

\* The keepalive answers pong to the caller, connected_users is not consulted.
handle_ping(sid) ==
    /\ resp' = SockReply("ping", sid, None, "pong")
    /\ UNCHANGED <<connected_users, rooms, emitted, delivered>>
    /\ UnchangedStore

\* One call of the broadcast service: its emits, and the call as the last request.
ServiceCall(op, actor, project_id, arg, new) ==
    /\ Emit(new)
    /\ resp' = Reply(op, actor, project_id, arg, 0, None)
    /\ UNCHANGED <<connected_users, rooms>>
    /\ UnchangedStore

broadcast_task_created(task_id, project_id, creator_id) ==
    ServiceCall("broadcast_task_created", creator_id, project_id, None,
                broadcast_to_project(emitted, project_id, "task_created", None,
                                     creator_id, task_id))

broadcast_task_updated(task_id, project_id, updater_id) ==
    ServiceCall("broadcast_task_updated", updater_id, project_id, None,
                broadcast_to_project(emitted, project_id, "task_updated", task_id,
                                     updater_id, None))

broadcast_task_status_change(task_id, old_status, new_status, project_id, updater_id) ==
    ServiceCall("broadcast_task_status_change", updater_id, project_id, new_status,
                broadcast_to_project(emitted, project_id, "task_status_changed", task_id,
                                     updater_id, new_status))

broadcast_comment_added(task_id, comment, project_id, author_id) ==
    ServiceCall("broadcast_comment_added", author_id, project_id, None,
                broadcast_to_project(emitted, project_id, "comment_added", task_id,
                                     author_id, comment))

\* The reminder goes to the assignee's room first, then to the project's.
broadcast_due_date_reminder(task_id, project_id, assignee_id) ==
    ServiceCall("broadcast_due_date_reminder", None, project_id, assignee_id,
                broadcast_to_project(
                    broadcast_to_user(emitted, assignee_id, "due_date_reminder", task_id,
                                      None, None),
                    project_id, "due_date_reminder", task_id, None, None))

broadcast_user_presence(user_id, project_id, is_online) ==
    ServiceCall("broadcast_user_presence", user_id, project_id, None,
                broadcast_to_project(emitted, project_id, "user_presence", None, user_id,
                                     IF is_online THEN "True" ELSE "False"))

\* RealTimeService.broadcast_task_assignment: the emits it makes, in order.
TaskAssignmentEmits_personal_only(log, task_id, assignee_id, project_id, assigner_id) ==
    IF assignee_id # None
    THEN broadcast_to_user(log, assignee_id, "task_assigned_to_you", task_id, assigner_id,
                           assignee_id)
    ELSE broadcast_to_project(log, project_id, "task_assigned", task_id, assigner_id,
                              assignee_id)

TaskAssignmentEmits(log, task_id, assignee_id, project_id, assigner_id) ==
    LET first == broadcast_to_project(log, project_id, "task_assigned", task_id,
                                      assigner_id, assignee_id)
    IN  IF assignee_id # None
        THEN broadcast_to_user(first, assignee_id, "task_assigned_to_you", task_id,
                               assigner_id, assignee_id)
        ELSE first

broadcast_task_assignment(task_id, assignee_id, project_id, assigner_id) ==
    /\ Emit(TaskAssignmentEmits(emitted, task_id, assignee_id, project_id, assigner_id))
    /\ resp' = Reply("broadcast_task_assignment", assigner_id, project_id, assignee_id,
                     0, None)
    /\ UNCHANGED <<connected_users, rooms>>
    /\ UnchangedStore

\* RealTimeService.broadcast_project_member_added; member_id is
\* member_data.get('user_id'), None when the dict has no such key.
MemberAddedEmits(log, project_id, member_id, added_by) ==
    LET first == broadcast_to_project(log, project_id, "member_added", None, added_by,
                                      member_id)
    IN  IF member_id # None
        THEN broadcast_to_user(first, member_id, "added_to_project", None, added_by,
                               member_id)
        ELSE first

broadcast_project_member_added(project_id, member_id, added_by) ==
    /\ Emit(MemberAddedEmits(emitted, project_id, member_id, added_by))
    /\ resp' = Reply("broadcast_project_member_added", added_by, project_id, member_id,
                     0, None)
    /\ UNCHANGED <<connected_users, rooms>>
    /\ UnchangedStore

\* The connections and the events their clients send.
NextSockets ==
    \/ \E sid \in Sids, token \in {"u1", "u3", None} : handle_connect(sid, token)
    \/ \E sid \in Sids : handle_disconnect(sid)
    \/ \E sid \in Sids, p \in {"p1", None} : handle_join_project(sid, p)
    \/ \E sid \in Sids, p \in {"p1", None} : handle_leave_project(sid, p)
    \/ \E sid \in Sids, t \in {"t1", None} : handle_task_status_update(sid, t, "done", "p1")
    \/ \E sid \in Sids, a \in {"u3", None} : handle_task_assignment(sid, "t1", a, "p1")
    \/ \E sid \in Sids : handle_new_comment(sid, "t1", "x", "p1")
    \/ \E sid \in Sids : handle_user_typing(sid, "t1", "p1", TRUE)
    \/ \E sid \in Sids : handle_ping(sid)

SpecSockets == Init /\ [][NextSockets]_vars

\* One client that changes a task over HTTP and sends the socket events.
NextRelay ==
    \/ \E token \in {"u1", None} : handle_connect("s1", token)
    \/ handle_join_project("s1", "p1")
    \/ \E t \in TaskIds : handle_task_status_update("s1", t, "done", "p1")
    \/ \E t \in TaskIds : handle_task_assignment("s1", t, None, "p1")
    \/ \E t \in TaskIds : handle_new_comment("s1", t, "x", "p1")
    \/ \E d \in CreateTaskData({"p1"}, {None}, {None}, {<<>>}) : create_task("u1", d)
    \/ \E t \in TaskIds : update_task_status("u1", t, "done")
    \/ \E t \in TaskIds : assign_task("u1", t, None)

SpecRelay == Init /\ [][NextRelay]_vars

\* The broadcast service applied to its inputs, with connections listening.
NextRealtime ==
    \/ \E sid \in Sids, token \in {"u2", "u3"} : handle_connect(sid, token)
    \/ \E sid \in Sids : handle_join_project(sid, "p1")
    \/ \E a \in {"u2", None} : broadcast_task_assignment("t1", a, "p1", "u1")
    \/ \E m \in {"u3", None} : broadcast_project_member_added("p1", m, "u1")
    \/ broadcast_task_created("t1", "p1", "u1")
    \/ broadcast_task_updated("t1", "p1", "u1")
    \/ broadcast_task_status_change("t1", "todo", "done", "p1", "u1")
    \/ broadcast_comment_added("t1", "x", "p1", "u1")
    \/ broadcast_due_date_reminder("t1", "p1", "u2")
    \/ \E is_online \in BOOLEAN : broadcast_user_presence("u2", "p1", is_online)

SpecRealtime == Init /\ [][NextRealtime]_vars

\* ------------------------------------------------------------------ failing commits
\* db.session.commit() raises when the database refuses or cannot be reached; the
\* handlers below are the runs of the task handlers in which one commit raises.

\* update_task_status when its commit raises: the except branch rolls the session
\* back and answers 500.
update_task_status_commit_fails(actor, t, new_status) ==
    /\ t \in DOMAIN tasks
    /\ TaskAccess(actor, tasks[t].project_id, TRUE) = "ok"
    /\ Refuse(Reply("update_task_status", actor, t, new_status, 500, "OperationalError"))

\* complete_task when its first commit, the one in Task.mark_complete -> save(),
\* raises: the except branch rolls back and answers 500, nothing is persisted.
complete_task_first_commit_fails(actor, t) ==
    /\ t \in DOMAIN tasks
    /\ TaskAccess(actor, tasks[t].project_id, TRUE) = "ok"
    /\ Refuse(Reply("complete_task", actor, t, None, 500, "OperationalError"))

\* complete_task when its second commit, the handler's own after log_activity,
\* raises: the log row is rolled back, what the first commit wrote stays.
complete_task_second_commit_fails(r) ==
    /\ r \in inflight
    /\ r.op = "complete_task"
    /\ inflight' = inflight \ {r}
    /\ resp' = Reply("complete_task", r.actor, r.target, None, 500, "OperationalError")
    /\ UNCHANGED <<projects, members, tasks, tags, task_tags, activity, emitted,
                   connected_users, rooms, delivered, comments, ids, now>>

\* The task handlers that commit, with and without a failing commit.
NextCommit ==
    \/ \E d \in CreateTaskData({"p1"}, {None}, {None}, {<<>>}) : create_task("u1", d)
    \/ \E t \in TaskIds, st \in TaskStatus : update_task_status("u1", t, st)
    \/ \E t \in TaskIds : complete_task("u1", t)
    \/ \E t \in TaskIds, st \in TaskStatus : update_task_status_commit_fails("u1", t, st)
    \/ \E r \in inflight : complete_task_finish(r)
    \/ \E t \in TaskIds : complete_task_first_commit_fails("u1", t)
    \/ \E r \in inflight : complete_task_second_commit_fails(r)

SpecCommit == Init /\ [][NextCommit]_vars

\* ------------------------------------------------------------------ concurrent status updates
\* update_task_status as two steps of one transaction under read committed: the
\* request reads the task row and sets the attributes in its session (tasks.py
\* 309-331), and the commit writes the attributes the session changed.

\* The request up to the commit.  The unit of work will write each attribute the
\* handler assigned a value that differs from the one the session loaded.
update_task_status_begin(actor, t, new_status) ==
    LET R(code, exc) == Reply("update_task_status", actor, t, new_status, code, exc)
    IN  /\ Cardinality(inflight) < MaxInflight
        /\ Len(activity) + Cardinality(inflight) < MaxLog
        /\ now <= MaxClock
        /\ IF t \notin DOMAIN tasks
             THEN Refuse(R(validate_json("NotFound"), "NotFound"))
           ELSE
           LET access == TaskAccess(actor, tasks[t].project_id, TRUE)
               old_status == tasks[t].status
           IN  IF access = "NameError"
                 THEN Refuse(R(validate_json("NameError"), "NameError"))
               ELSE IF access = "denied"
                 THEN Refuse(R(403, None))
               ELSE /\ inflight' = inflight \cup
                          {InFlight("update_task_status", actor, t, new_status,
                                    old_status, tasks[t].completed_at, now)}
                    /\ now' = IF new_status = "done" THEN now + 1 ELSE now
                    /\ UNCHANGED <<projects, members, tasks, tags, task_tags, activity,
                                   emitted, connected_users, rooms, delivered, comments,
                                   ids, resp>>

\* db.session.commit() of a request that began: UPDATE tasks SET the changed columns,
\* INSERT the log row.
update_task_status_commit(r) ==
    LET t == r.target
        row == tasks[t]
        status == IF r.name # r.loaded THEN r.name ELSE row.status
        completed_at ==
            IF r.name = "done" THEN r.utcnow
            ELSE IF r.loaded = "done" /\ r.loaded_at # NULL_TIME THEN NULL_TIME
            ELSE row.completed_at
    IN  /\ r \in inflight
        /\ r.op = "update_task_status"
        /\ inflight' = inflight \ {r}
        /\ tasks' = [tasks EXCEPT ![t] = [row EXCEPT !.status = status,
                                                     !.completed_at = completed_at]]
        /\ activity' = log_activity(activity, r.actor, row.project_id, "status_changed", t,
                                    [old_status |-> r.loaded, new_status |-> r.name])
        /\ resp' = Reply("update_task_status", r.actor, t, r.name, 200, None)
        /\ UNCHANGED <<projects, members, tags, task_tags, emitted, connected_users, rooms,
                       delivered, comments, ids, now>>

\* Status updates one after the other and overlapping.
NextStatusRace ==
    \/ \E d \in CreateTaskData({"p1"}, {None}, {None}, {<<>>}) :
            inflight = {} /\ create_task("u1", d)
    \/ \E actor \in Users, t \in TaskIds, st \in TaskStatus :
            inflight = {} /\ update_task_status(actor, t, st)
    \/ \E actor \in Users, t \in TaskIds, st \in TaskStatus :
            update_task_status_begin(actor, t, st)
    \/ \E r \in inflight : update_task_status_commit(r)

SpecStatusRace == Init /\ [][NextStatusRace]_vars

\* The handlers that set a task's assignee or change the project's roster.
NextAssign ==
    \/ \E actor \in Users,
          data \in CreateTaskData({"p1"}, Users \cup {None}, {None}, {<<>>}) :
          create_task(actor, data)
    \/ \E actor \in Users, t \in TaskIds,
          data \in UpdateTaskData({Absent}, Users \cup {None}, {}) :
          update_task(actor, t, data)
    \/ \E actor \in Users, t \in TaskIds, assignee_id \in Users \cup {None} :
          assign_task(actor, t, assignee_id)
    \/ \E actor \in Users, u \in Users, role \in MemberRole :
          add_project_member(actor, "p1", u, role)
    \/ \E actor \in Users, u \in Users : remove_project_member(actor, "p1", u)

SpecAssign == Init /\ [][NextAssign]_vars

\* ------------------------------------------------------------------ claims
\* The project a task request is about, in the state before the request:
\* the project named in the body for create_task, the task's project otherwise.
ProjectOf(r) ==
    IF r.op = "create_task" THEN r.target
    ELSE IF r.target \in DOMAIN tasks THEN tasks[r.target].project_id
    ELSE None

\* The step answers a request: it is a whole handler or the last step of one, and
\* resp' is the response it sent.  A step that leaves a request in flight sends none.
Answers == inflight' \subseteq inflight

MutatingTaskOps ==
    {"create_task", "update_task", "delete_task", "update_task_status",
     "assign_task", "complete_task"}

\* Owner, or a member whose role is at least member.
HasMemberRole(p, u) ==
    projects[p].owner_id = u \/ MemberRow(p, u) \in {"member", "admin"}

\* C1: a mutating task request by an actor who is neither the project's owner nor
\* a member with role member or admin is answered 403, and changes no task, no
\* task_tags row, no activity row and emits nothing.
C1_DeniedLeavesState ==
    [][ (/\ Answers
         /\ resp'.op \in MutatingTaskOps
         /\ ProjectOf(resp') \in DOMAIN projects
         /\ ~HasMemberRole(ProjectOf(resp'), resp'.actor))
        => (/\ resp'.code = 403
            /\ UNCHANGED <<tasks, task_tags, activity, emitted>>) ]_vars

\* C2: create_task by a user whose project_members row has role member, with no
\* status in the body, is answered 201, adds one task with status todo, and
\* appends exactly one activity row, of action created, for that task.
C2_MemberCreatesTask ==
    [][ \A actor \in Users :
        \A data \in CreateTaskData(DOMAIN projects, Users \cup {None}, {None}, {<<>>}) :
          (/\ MemberRow(data.project_id, actor) = "member"
           /\ create_task(actor, data))
          => (/\ resp'.code = 201
              /\ \E t \in DOMAIN tasks' :
                    /\ t \notin DOMAIN tasks
                    /\ tasks'[t].status = "todo"
                    /\ Len(activity') = Len(activity) + 1
                    /\ activity'[Len(activity')].action = "created"
                    /\ activity'[Len(activity')].task_id = t) ]_vars

\* C3: in every reachable state, a task's completed_at is set exactly when its
\* status is done.
C3_CompletedIffDone ==
    \A t \in DOMAIN tasks : (tasks[t].completed_at # NULL_TIME) <=> (tasks[t].status = "done")

StatusOps == {"update_task", "update_task_status", "complete_task"}

\* C4: a successful request that changes a task's status from old to new sets
\* completed_at when new is done, clears it when old is done, and leaves it as
\* it was for every other pair of old and new status.
C4_CompletedAtFollowsStatus ==
    [][ (/\ Answers
         /\ resp'.op \in StatusOps
         /\ resp'.code = 200
         /\ resp'.target \in DOMAIN tasks)
        => LET old == tasks[resp'.target]
               new == tasks'[resp'.target]
           IN  new.status # old.status
               => /\ new.status = "done" => new.completed_at # NULL_TIME
                  /\ old.status = "done" => new.completed_at = NULL_TIME
                  /\ (old.status # "done" /\ new.status # "done")
                        => new.completed_at = old.completed_at ]_vars

\* C5: every step that changes a task's status appends an activity row of action
\* status_changed that holds the old and the new status.
C5_StatusChangeLogged ==
    [][ \A t \in (DOMAIN tasks) \cap (DOMAIN tasks') :
          tasks'[t].status # tasks[t].status
          => (/\ Len(activity') = Len(activity) + 1
              /\ activity'[Len(activity')].action = "status_changed"
              /\ activity'[Len(activity')].task_id = t
              /\ activity'[Len(activity')].details =
                    [old_status |-> tasks[t].status, new_status |-> tasks'[t].status]) ]_vars

\* The user is neither the owner of p nor a member of p.
Outsider(p, u) == projects[p].owner_id # u /\ MemberRow(p, u) = None

\* C6: assign_task naming a user who is neither the owner of the task's project
\* nor a member of it is answered 400 and leaves the task's assignee and the
\* activity log as they were.
C6_OutsiderNotAssigned ==
    [][ (/\ Answers
         /\ resp'.op = "assign_task"
         /\ resp'.target \in DOMAIN tasks
         /\ resp'.arg \in Users
         /\ Outsider(tasks[resp'.target].project_id, resp'.arg))
        => (/\ resp'.code = 400
            /\ tasks' = tasks
            /\ activity' = activity) ]_vars

\* C6 witness: the owner asked to assign a task to an outsider and was refused.
C6_Witness ==
    /\ resp.op = "assign_task"
    /\ resp.target \in DOMAIN tasks
    /\ resp.actor = projects[tasks[resp.target].project_id].owner_id
    /\ resp.arg \in Users
    /\ Outsider(tasks[resp.target].project_id, resp.arg)
    /\ resp.code = 400

\* C7 as written: a successful assign is read back, and assigning None is
\* accepted and clears the assignee.
C7_AssignNoneClears ==
    [][ (Answers /\ resp'.op = "assign_task" /\ resp'.target \in DOMAIN tasks)
        => (/\ resp'.code = 200 => tasks'[resp'.target].assignee_id = resp'.arg
            /\ (resp'.arg = None /\ HasMemberRole(ProjectOf(resp'), resp'.actor))
                  => (resp'.code = 200 /\ tasks'[resp'.target].assignee_id = None)) ]_vars

\* C7 amended: a successful assign of task T to u is read back as assignee u;
\* assign_task with the none value is refused with a validation error (422) and
\* leaves the task and the activity log as they were.
C7_AssignRoundTrip ==
    [][ (Answers /\ resp'.op = "assign_task" /\ resp'.target \in DOMAIN tasks)
        => (/\ resp'.code = 200
                  => (/\ resp'.arg \in Users
                      /\ tasks'[resp'.target].assignee_id = resp'.arg)
            /\ resp'.arg = None
                  => (resp'.code = 422 /\ tasks' = tasks /\ activity' = activity)) ]_vars

\* C7 witness: a task that was assigned to a user reads back that user, and a
\* later assign of None to it was refused by validation.
C7_Witness ==
    /\ resp.op = "assign_task"
    /\ resp.arg = None
    /\ resp.code = 422
    /\ resp.target \in DOMAIN tasks
    /\ tasks[resp.target].assignee_id \in Users
    /\ \E i \in DOMAIN activity :
          /\ activity[i].action = "assigned"
          /\ activity[i].task_id = resp.target
          /\ activity[i].details.assignee_username = tasks[resp.target].assignee_id

\* C8: every task_tags row joins a task to a tag that is global or belongs to
\* the task's project.
C8_TagLinksInScope ==
    \A l \in task_tags :
        (l.task_id \in DOMAIN tasks /\ l.tag_id \in DOMAIN tags)
        => (\/ tags[l.tag_id].project_id = None
            \/ tags[l.tag_id].project_id = tasks[l.task_id].project_id)

\* C9: no two tags have the same name in the same scope, whatever the order in
\* which concurrent create_tag and update_tag requests check and commit.
C9_TagNamesUnique ==
    \A g, h \in DOMAIN tags :
        (tags[g].name = tags[h].name /\ tags[g].project_id = tags[h].project_id) => g = h

\* One project_members row per (project, user), and none for a project's owner.
RosterWellFormed ==
    /\ \A m, n \in members : (m.project_id = n.project_id /\ m.user_id = n.user_id) => m = n
    /\ \A m \in members :
          m.project_id \in DOMAIN projects => projects[m.project_id].owner_id # m.user_id

\* add_member of a user who has a row in the project, or who owns it, does not
\* succeed and leaves project_members as it was.
AddMemberRefused ==
    (/\ resp'.op = "add_project_member"
     /\ resp'.target \in DOMAIN projects
     /\ resp'.arg \in Users
     /\ MemberRow(resp'.target, resp'.arg) # None
           \/ projects[resp'.target].owner_id = resp'.arg)
    => (resp'.code >= 400 /\ members' = members)

\* C10: over create_project, add_member, update_member_role and remove_member
\* there is at most one project_members row per (project, user) and none for
\* the owner, and add_member of an existing member or of the owner is refused
\* with the roster unchanged.
C10_RosterWellFormed == []RosterWellFormed /\ [][AddMemberRefused]_vars

\* C10 witness: a caller who passes the admin check (here the owner) asked to
\* add a user who already has a row in the project, and was refused.
C10_Witness ==
    /\ resp.op = "add_project_member"
    /\ resp.target \in DOMAIN projects
    /\ resp.actor = projects[resp.target].owner_id
    /\ resp.arg \in Users
    /\ MemberRow(resp.target, resp.arg) # None
    /\ resp.code = 400

EffectiveRoles == {"owner", "admin", "member", "viewer", "none"}

\* The project handlers behind permission_required.
GuardedOps ==
    {"get_project", "update_project", "toggle_archive_project", "add_project_member",
     "update_member_role", "remove_project_member"}

\* C11: for every actor and project the access check resolves one role among
\* owner, admin, member, viewer and none; it resolves owner exactly when the
\* actor's id is the project's owner_id, whatever project_members row the pair
\* has, and a request of the owner is never answered 403 by the check.
C11_OwnerResolvedFirst ==
    /\ [](\A actor \in Users : \A p \in DOMAIN projects :
            /\ resolve_role(actor, p) \in EffectiveRoles
            /\ (resolve_role(actor, p) = "owner") <=> (projects[p].owner_id = actor))
    /\ [][ (/\ resp'.op \in GuardedOps
            /\ resp'.target \in DOMAIN projects
            /\ projects[resp'.target].owner_id = resp'.actor)
           => resp'.code # 403 ]_vars

\* C11 witness: the owner holds a project_members row of role viewer and has
\* passed the admin check of update_project.
C11_Witness ==
    /\ resp.op = "update_project"
    /\ resp.target \in DOMAIN projects
    /\ resp.actor = projects[resp.target].owner_id
    /\ MemberRow(resp.target, resp.actor) = "viewer"
    /\ resp.code # 403

\* C12: update_task_status and complete_task called by a user whose
\* project_members row has role viewer are refused as access denied (403), and
\* leave every task (its status and completed_at) and the activity log as they were.
C12_ViewerCannotChangeStatus ==
    [][ (/\ Answers
         /\ resp'.op \in {"update_task_status", "complete_task"}
         /\ resp'.target \in DOMAIN tasks
         /\ MemberRow(tasks[resp'.target].project_id, resp'.actor) = "viewer"
         /\ projects[tasks[resp'.target].project_id].owner_id # resp'.actor)
        => (/\ resp'.code = 403
            /\ tasks' = tasks
            /\ activity' = activity) ]_vars

\* The level each guarded project handler is declared with.
RequiredLevel(op) == IF op = "get_project" THEN "viewer" ELSE "admin"

\* The actor has a project_members row whose rank is at least the rank of r.
RankSuffices(actor, p, r) ==
    /\ MemberRow(p, actor) # None
    /\ role_hierarchy(MemberRow(p, actor)) >= role_hierarchy(r)

\* C13: for a required level r among viewer, member and admin, the check lets a
\* non-owner pass exactly when the actor has a project_members row of rank at
\* least the rank of r (viewer < member < admin), and lets the owner pass for
\* every r; a guarded request is answered 403 exactly when the check denies.
C13_RankDecidesAccess ==
    /\ [](\A actor \in Users : \A p \in DOMAIN projects : \A r \in MemberRole :
            (permission_required(actor, p, r) = "ok")
            <=> (projects[p].owner_id = actor \/ RankSuffices(actor, p, r)))
    /\ [][ (resp'.op \in GuardedOps /\ resp'.target \in DOMAIN projects)
           => ((resp'.code = 403)
               <=> ~(\/ projects[resp'.target].owner_id = resp'.actor
                     \/ RankSuffices(resp'.actor, resp'.target, RequiredLevel(resp'.op)))) ]_vars

\* C13 witness: a member of role member was let through by the viewer check of
\* get_project, in a state where the admin check denies the same user.
C13_Witness ==
    /\ resp.op = "get_project"
    /\ resp.target \in DOMAIN projects
    /\ projects[resp.target].owner_id # resp.actor
    /\ MemberRow(resp.target, resp.actor) = "member"
    /\ resp.code # 403
    /\ permission_required(resp.actor, resp.target, "admin") = "denied"

\* C14: a step that changes a project's is_archived flag (the flag
\* delete_project sets) is a request of that project's owner; no request of
\* another actor, admins included, changes it.
C14_OnlyOwnerArchives ==
    [][ \A p \in DOMAIN projects :
          projects'[p].is_archived # projects[p].is_archived
          => (resp'.actor = projects[p].owner_id /\ resp'.target = p) ]_vars

\* C14 witness: an admin member asked to delete a project that its owner had
\* not archived and was refused, the flag still unset.
C14_Witness ==
    /\ resp.op = "delete_project"
    /\ resp.target \in DOMAIN projects
    /\ resp.actor # projects[resp.target].owner_id
    /\ MemberRow(resp.target, resp.actor) = "admin"
    /\ resp.code = 403
    /\ ~projects[resp.target].is_archived

\* C15: remove_member naming the project's owner fails whatever rows the
\* project_members table holds, and remove_member or update_member_role naming
\* a user without a row fails; the table and the projects stay as they were.
C15_OwnerAndAbsentNotRemoved ==
    [][ (/\ resp'.op \in {"remove_project_member", "update_member_role"}
         /\ resp'.target \in DOMAIN projects
         /\ \/ resp'.op = "remove_project_member"
                  /\ projects[resp'.target].owner_id = resp'.arg
            \/ MemberRow(resp'.target, resp'.arg) = None)
        => (/\ resp'.code >= 400
            /\ members' = members
            /\ projects' = projects) ]_vars

\* C15 witness: the owner holds a project_members row, and a remove_member
\* naming the owner, sent by a caller who passes the admin check, was refused.
C15_Witness ==
    /\ resp.op = "remove_project_member"
    /\ resp.target \in DOMAIN projects
    /\ resp.arg = projects[resp.target].owner_id
    /\ MemberRow(resp.target, resp.arg) # None
    /\ permission_required(resp.actor, resp.target, "admin") = "ok"
    /\ resp.code >= 400

\* C16: update_comment by anyone but the comment's author (the project's owner
\* and admins included) is answered 403 and leaves the comment as it was;
\* delete_comment succeeds exactly for the author, the owner of the comment's
\* project and an admin member of it, and is answered 403 for everyone else.
C16_CommentAuthorEdits ==
    [][ /\ (/\ resp'.op = "update_comment"
            /\ resp'.target \in DOMAIN comments
            /\ comments[resp'.target].user_id # resp'.actor)
           => (resp'.code = 403 /\ comments' = comments)
        /\ (resp'.op = "delete_comment" /\ resp'.target \in DOMAIN comments)
           => LET c == resp'.target
                  p == tasks[comments[c].task_id].project_id
                  allowed == \/ comments[c].user_id = resp'.actor
                             \/ projects[p].owner_id = resp'.actor
                             \/ MemberRow(p, resp'.actor) = "admin"
              IN  IF allowed
                  THEN resp'.code = 200 /\ c \notin DOMAIN comments'
                  ELSE resp'.code = 403 /\ comments' = comments ]_vars

\* C16 witness: the project's owner asked to edit a comment written by another
\* user and was refused; the comment is unedited.
C16_Witness ==
    /\ resp.op = "update_comment"
    /\ resp.target \in DOMAIN comments
    /\ comments[resp.target].user_id # resp.actor
    /\ projects[tasks[comments[resp.target].task_id].project_id].owner_id = resp.actor
    /\ resp.code = 403
    /\ ~comments[resp.target].is_edited

\* C17: update_tag and delete_tag on a global tag (project_id null) are
\* answered 403 for every actor, project owners included, and leave the tags
\* and every task_tags row as they were.
C17_GlobalTagImmutable ==
    [][ (/\ resp'.op \in {"update_tag", "delete_tag"}
         /\ resp'.target \in DOMAIN tags
         /\ tags[resp'.target].project_id = None)
        => (resp'.code = 403 /\ tags' = tags /\ task_tags' = task_tags) ]_vars

\* C17 witness: a project owner asked to delete a global tag that is attached
\* to a task of the project and was refused; tag and link are still there.
C17_Witness ==
    /\ resp.op = "delete_tag"
    /\ resp.target \in DOMAIN tags
    /\ tags[resp.target].project_id = None
    /\ resp.code = 403
    /\ \E l \in task_tags :
          /\ l.tag_id = resp.target
          /\ projects[tasks[l.task_id].project_id].owner_id = resp.actor

\* Every tag id of the batch names a tag that may be attached to a task of p.
Attachable(batch, p) ==
    \A i \in DOMAIN batch :
        batch[i] \in DOMAIN tags /\ ~TagScopeMismatch(batch[i], p)

\* C18: attaching a tag that is already attached is a silent no-op, also when
\* one request names the same tag id more than once: add_tag_to_task, and
\* create_task and update_task with tag_ids, sent by the project's owner with
\* attachable tag ids, succeed, and the task is linked to each named tag once.
C18_AttachIdempotent ==
    [][ /\ \A actor \in Users : \A t \in DOMAIN tasks :
           \A batch \in SeqsUpTo(TagIds, MaxBatch) :
              (/\ add_tag_to_task(actor, t, batch)
               /\ projects[tasks[t].project_id].owner_id = actor
               /\ Attachable(batch, tasks[t].project_id))
              => (resp'.code = 200 /\ task_tags' = task_tags \cup Links(t, batch))
        /\ \A actor \in Users :
           \A data \in CreateTaskData(DOMAIN projects, {None}, {None},
                                      SeqsUpTo(TagIds, MaxBatch)) :
              (/\ create_task(actor, data)
               /\ projects[data.project_id].owner_id = actor
               /\ Attachable(data.tag_ids, data.project_id))
              => (/\ resp'.code = 201
                  /\ \E t \in DOMAIN tasks' \ DOMAIN tasks :
                        task_tags' = task_tags \cup Links(t, data.tag_ids)) ]_vars

\* C19: the activity log is append-only: every step keeps each committed row
\* in place with all of its fields (user, project, task id, action, details),
\* delete_task and delete_comment included.
C19_LogAppendOnly ==
    [][ /\ Len(activity') >= Len(activity)
        /\ \A i \in DOMAIN activity : activity'[i] = activity[i] ]_vars

\* C20: once a status change of a task of project P has been committed and
\* answered, an event task_status_changed has been emitted to P's room; once an
\* assignment has been committed and answered, an event has been emitted to
\* P's room and to the room of the new assignee.
C20_MutationsBroadcast ==
    /\ (resp.op = "update_task_status" /\ resp.code = 200 /\ resp.target \in DOMAIN tasks)
       => \E i \in DOMAIN emitted :
             /\ emitted[i].event = "task_status_changed"
             /\ emitted[i].room = [kind |-> "project", id |-> tasks[resp.target].project_id]
    /\ (resp.op = "assign_task" /\ resp.code = 200 /\ resp.target \in DOMAIN tasks)
       => /\ \E i \in DOMAIN emitted :
                emitted[i].room = [kind |-> "project", id |-> tasks[resp.target].project_id]
          /\ \E i \in DOMAIN emitted :
                emitted[i].room = [kind |-> "user", id |-> resp.arg]

\* The events that report a task mutation on a project channel.
MutationEvents == {"task_updated", "task_assigned", "comment_added"}

\* The log rows of committed mutations of task t by user u.
CommittedBy(t, u) ==
    {i \in DOMAIN activity : activity[i].task_id = t /\ activity[i].user_id = u}

\* C21: an event that reports a mutation of a task by an actor on a project channel
\* is emitted only after a committed mutation of that task by that actor; a request
\* that commits nothing emits nothing on the project channel.
C21_EmitFollowsCommit ==
    \A n \in DOMAIN emitted :
        (emitted[n].event \in MutationEvents /\ emitted[n].room.kind = "project")
            => CommittedBy(emitted[n].task_id, emitted[n].actor) # {}

\* C22: a mutation and its log entry are committed together or not at all: a call in
\* which a commit fails persists neither the task change nor a log entry, and every
\* task change that is persisted has its log entry.
C22_CommitTogether ==
    [][/\ (resp'.exc = "OperationalError" /\ resp' # resp)
            => (tasks' = tasks /\ activity' = activity)
       /\ tasks' # tasks => Len(activity') = Len(activity) + 1]_vars

\* C23: two overlapping update_task_status requests on one task leave it as some
\* serial order of the two would: once both have committed, completed_at is set
\* exactly when the status is done.
C23_StatusRaceSerialisable ==
    inflight = {} =>
        \A t \in DOMAIN tasks :
            (tasks[t].completed_at # NULL_TIME) <=> (tasks[t].status = "done")

\* The step appended one log entry with this action, naming the actor and the project.
LoggedOne(action, actor, p) ==
    /\ Len(activity') = Len(activity) + 1
    /\ SubSeq(activity', 1, Len(activity)) = activity
    /\ activity'[Len(activity')].action = action
    /\ activity'[Len(activity')].user_id = actor
    /\ activity'[Len(activity')].project_id = p

\* C24: the membership operations log in the same request: the owner's add_member of
\* a user who is neither member nor owner succeeds and appends one member_added
\* entry, and the owner's remove_member of a member succeeds and appends one
\* member_removed entry, each naming the acting user and the project.
C24_MemberChangeLogged ==
    [][ \A p \in DOMAIN projects, u \in Users, role \in MemberRole :
          LET owner == projects[p].owner_id
          IN  /\ (/\ u # owner
                  /\ MemberRow(p, u) = None
                  /\ add_project_member(owner, p, u, role))
                 => (resp'.code = 201 /\ LoggedOne("member_added", owner, p))
              /\ (/\ MemberRow(p, u) # None
                  /\ remove_project_member(owner, p, u))
                 => (resp'.code = 200 /\ LoggedOne("member_removed", owner, p)) ]_vars

\* The calls of the broadcast service that have a target user.
TargetedBroadcasts == {"broadcast_task_assignment", "broadcast_project_member_added"}

\* C25: personal delivery is additive to the project broadcast: a call that broadcasts
\* a task assignment or a member addition always emits on the project's channel, and
\* emits on the target user's personal channel as well exactly when a target user id
\* is present, never instead of the project emit.
C25_PersonalIsAdditive ==
    [][ (resp'.op \in TargetedBroadcasts /\ emitted' # emitted) =>
          LET new == SubSeq(emitted', Len(emitted) + 1, Len(emitted'))
              personal == {n \in DOMAIN new : new[n].room.kind = "user"}
          IN  /\ SubSeq(emitted', 1, Len(emitted)) = emitted
              /\ \E n \in DOMAIN new : new[n].room = project_room(resp'.target)
              /\ (personal # {}) <=> (resp'.arg # None)
              /\ \A n \in personal : new[n].room = user_room(resp'.arg) ]_vars

\* An assignment was broadcast to the project and to the assignee, whose connection
\* received the personal event.
C25_Witness ==
    /\ resp.op = "broadcast_task_assignment"
    /\ resp.arg # None
    /\ Len(emitted) = 2
    /\ emitted[1].room = project_room(resp.target)
    /\ emitted[2].room = user_room(resp.arg)
    /\ \E s \in DOMAIN connected_users :
            connected_users[s] = resp.arg /\ 2 \in Range(delivered[s])

\* What a step may add to a connection's received events: only emits made in that
\* step, to a room the connection is in when they are made.
DeliveredToSubscribers ==
    \A s \in Sids :
        /\ Len(delivered'[s]) >= Len(delivered[s])
        /\ SubSeq(delivered'[s], 1, Len(delivered[s])) = delivered[s]
        /\ \A k \in (Len(delivered[s]) + 1)..Len(delivered'[s]) :
              LET n == delivered'[s][k]
              IN  /\ n \in (Len(emitted) + 1)..Len(emitted')
                  /\ [sid |-> s, room |-> emitted'[n].room] \in rooms

\* A connection that left a project room, or disconnected, is no longer subscribed.
LeftMeansUnsubscribed ==
    /\ (resp'.op = "leave_project" /\ resp'.exc = "left_project")
          => [sid |-> resp'.actor, room |-> project_room(resp'.target)] \notin rooms'
    /\ resp'.op = "disconnect" => \A r \in rooms' : r.sid # resp'.actor

\* No emit is in a connection's received events twice.
DeliveredOnce ==
    \A s \in Sids : \A j, k \in DOMAIN delivered[s] :
        delivered[s][j] = delivered[s][k] => j = k

\* C26: an emit on a project channel reaches each connection at most once, and only
\* the connections that are in the project's room when it is emitted: a connection
\* that left the room or disconnected receives nothing emitted later, and joining
\* again brings no replay of what it missed.
C26_DeliveredToCurrentSubscribers ==
    []DeliveredOnce /\ [][DeliveredToSubscribers /\ LeftMeansUnsubscribed]_vars

\* A connection received the first event of project p1, left, missed the second, and
\* is in the room again without having received it.
C26_Witness ==
    \E s \in DOMAIN connected_users :
        /\ Len(emitted) = 2
        /\ emitted[1].room = project_room("p1")
        /\ emitted[2].room = project_room("p1")
        /\ delivered[s] = <<1>>
        /\ [sid |-> s, room |-> project_room("p1")] \in rooms

\* The tags linked to a task.
TagSet(links, t) == {l.tag_id : l \in {x \in links : x.task_id = t}}

\* The mutable fields of a task that the step changed, the tag set included.
ChangedFields(t) ==
    {f \in {"status", "assignee_id"} : tasks'[t][f] # tasks[t][f]}
    \cup (IF TagSet(task_tags', t) # TagSet(task_tags, t) THEN {"tag_ids"} ELSE {})

\* C27: a successful update_task appends an entry with action updated exactly when at
\* least one mutable field of the task, the tag set included, differs from before;
\* the entry's change map holds exactly the changed fields, and an update that changes
\* nothing appends no entry.
C27_UpdateLoggedIffChanged ==
    [][ (resp'.op = "update_task" /\ resp'.code = 200) =>
          LET t == resp'.target
          IN  IF ChangedFields(t) = {}
              THEN activity' = activity
              ELSE /\ LoggedOne("updated", resp'.actor, tasks[t].project_id)
                   /\ activity'[Len(activity')].task_id = t
                   /\ DOMAIN activity'[Len(activity')].details.changes = ChangedFields(t)
      ]_vars

\* A batch with a tag id that does not exist or that is out of scope for project p.
BadBatch(batch, p) ==
    \E i \in DOMAIN batch :
        IF batch[i] \in DOMAIN tags THEN TagScopeMismatch(batch[i], p) ELSE TRUE

\* C28: a tag batch is all-or-nothing: when a tag id of an add_tag_to_task,
\* create_task or update_task request does not exist or is out of scope for the
\* task's project, the task's links after the call are the links before it.
C28_TagBatchAllOrNothing ==
    [][ \A actor \in Users, batch \in SeqsUpTo(TagIds, MaxBatch) :
          /\ \A t \in DOMAIN tasks :
                (/\ BadBatch(batch, tasks[t].project_id)
                 /\ \/ add_tag_to_task(actor, t, batch)
                    \/ \E data \in UpdateTaskData({}, {}, {batch}) :
                          update_task(actor, t, data))
                => TagSet(task_tags', t) = TagSet(task_tags, t)
          /\ \A data \in CreateTaskData(DOMAIN projects, {None}, {None}, {batch}) :
                (BadBatch(batch, data.project_id) /\ create_task(actor, data))
                => task_tags' = task_tags ]_vars

\* C29: in every state reached by create_task, update_task, assign_task, add_member
\* and remove_member, each task's assignee is null, the owner of the task's project,
\* or a user with a member row in that project.
C29_AssigneeInProject ==
    \A t \in DOMAIN tasks :
        \/ tasks[t].assignee_id = None
        \/ tasks[t].assignee_id = projects[tasks[t].project_id].owner_id
        \/ MemberRow(tasks[t].project_id, tasks[t].assignee_id) # None

\* User u may view project p: p exists and u is its owner or has a member row in it.
MayView(u, p) ==
    /\ p \in DOMAIN projects
    /\ projects[p].owner_id = u \/ MemberRow(p, u) # None

\* C30: project events reach only users who may view the project: each connection in
\* the room of project P, and each connection whose client event is re-broadcast to
\* that room, is authenticated as P's owner or as a member of P; a connection without
\* authentication is never registered, is in no room and causes no emit.
C30_RoomsHoldProjectViewers ==
    /\ \A s \in DOMAIN connected_users : connected_users[s] \in Users
    /\ \A r \in rooms :
          /\ r.sid \in DOMAIN connected_users
          /\ r.room.kind = "project" => MayView(connected_users[r.sid], r.room.id)
    /\ \A n \in DOMAIN emitted :
          /\ emitted[n].actor \in Users
          /\ emitted[n].room.kind = "project" => MayView(emitted[n].actor, emitted[n].room.id)

====
